---- MODULE Spec2Model ----
(***************************************************************************)
(* Stream adapters of codewandler/llm: one producer goroutine per stream   *)
(* turns a backend's frames into canonical events on a buffered channel    *)
(* that a consumer drains.  Six adapters are modelled, each from its own   *)
(* parseStream / streamEvents: openai, openrouter, anthropic, bedrock,     *)
(* ollama and claudecode.                                                  *)
(***************************************************************************)
EXTENDS Integers, Sequences, FiniteSets, TLC

\* ------------------------------------------------------------------ bounds
\* Frames the transport delivers before it reports end of input.
MaxFrames == 3

\* make(chan llm.StreamEvent, 64)
ChanCap == 64

\* ------------------------------------------------------------ basic values
Providers == {"openai", "openrouter", "anthropic", "bedrock", "ollama", "claudecode"}

\* ctx.Err() of a live context is nil; otherwise one of the two causes.
CtxCauses == {"context canceled", "context deadline exceeded"}

\* Argument text is a sequence of JSON lexemes.  "a" and "b" stand for the
\* members "a":1 and "b":2.
FragOpen  == <<"{", "a">>
FragClose == <<"}">>
FragWhole == <<"{", "b", "}">>

Members == {"a", "b"}

RECURSIVE MembersOK(_)
\* The text between the braces: empty, or members separated by commas.
MembersOK(s) ==
    IF s = <<>> THEN TRUE
    ELSE /\ Head(s) \in Members
         /\ \/ Len(s) = 1
            \/ /\ Len(s) >= 3
               /\ s[2] = ","
               /\ MembersOK(SubSeq(s, 3, Len(s)))

\* json.Unmarshal(buf, &args) with args a nil map[string]any and the error
\* discarded: a syntactically valid object gives the map of its members,
\* anything else leaves args nil.  <<>> is nil, <<m>> is the map m.
UnmarshalArgs(buf) ==
    IF /\ Len(buf) >= 2
       /\ Head(buf) = "{"
       /\ buf[Len(buf)] = "}"
       /\ MembersOK(SubSeq(buf, 2, Len(buf) - 1))
    THEN <<{buf[i] : i \in {j \in 2..(Len(buf) - 1) : buf[j] \in Members}}>>
    ELSE <<>>

\* Mutant: a decoder that keeps the members it read before the syntax error.
ParseArgsPartial(buf) ==
    IF Len(buf) > 0 /\ UnmarshalArgs(buf) = <<>>
    THEN <<{buf[i] : i \in {j \in 1..Len(buf) : buf[j] \in Members}}>>
    ELSE UnmarshalArgs(buf)

\* var args map[string]any; if buf.Len() > 0 { _ = json.Unmarshal(...) }
ParseArgs(buf) == IF Len(buf) > 0 THEN UnmarshalArgs(buf) ELSE <<>>

\* ------------------------------------------------------------------ events
\* llm.Usage; a nil *Usage is <<>>, a non-nil one <<u>>.
Usage(i, o, t) == [input |-> i, output |-> o, total |-> t]
ZeroUsage == Usage(0, 0, 0)

\* error values: wrap is the fmt.Errorf prefix ("" for the bare error).
Err(wrap, cause) == [wrap |-> wrap, cause |-> cause]
NoErr == Err("", "")

\* llm.StreamEvent
Event(type, text, id, name, args, usage, err) ==
    [type |-> type, text |-> text, id |-> id, name |-> name,
     args |-> args, usage |-> usage, err |-> err]

DeltaEv(t)          == Event("delta", t, "", "", <<>>, <<>>, NoErr)
ReasoningEv(t)      == Event("reasoning", t, "", "", <<>>, <<>>, NoErr)
ToolCallEv(i, n, a) == Event("tool_call", "", i, n, a, <<>>, NoErr)
DoneEv(u)           == Event("done", "", "", "", <<>>, u, NoErr)
ErrorEv(e)          == Event("error", "", "", "", <<>>, <<>>, e)

IsTerminal(e) == e.type \in {"done", "error"}

\* ------------------------------------------------------- transport outcomes
\* What one blocking read of the transport returns besides a frame: end of
\* input, or a read failure.  A failure caused by the request context is
\* possible only once that context is cancelled.
EOF == [k |-> "eof"]
ReadErr(c) == [k |-> "readerr", cause |-> c]

ReadFailures(ctx) ==
    {ReadErr("unexpected EOF")} \cup (IF ctx = "" THEN {} ELSE {ReadErr(ctx)})

\* ---------------------------------------------- OpenAI-compatible SSE lines
\* One element of choices[0].delta.tool_calls.
TcDelta(index, id, name, args) ==
    [index |-> index, id |-> id, name |-> name, args |-> args]

\* A decoded "data: {...}" line.  usage is <<>> for an absent usage object,
\* finish is "" for an absent finish_reason, error is "" for an absent error
\* object, choices is FALSE for an empty choices array.
Chunk(usage, choices, content, reasoning, tcs, finish, error) ==
    [k |-> "chunk", usage |-> usage, choices |-> choices, content |-> content,
     reasoning |-> reasoning, tcs |-> tcs, finish |-> finish, error |-> error]

WireUsage(p, c, t) == [prompt |-> p, completion |-> c, total |-> t]

OAILines ==
    { [k |-> "nondata"],                 \* a line without the "data: " prefix
      [k |-> "[DONE]"],                  \* data: [DONE]
      [k |-> "garbage"],                 \* data: followed by undecodable JSON
      Chunk(<<>>, TRUE, "Hello", "", <<>>, "", ""),
      Chunk(<<>>, TRUE, "", "Let me think", <<>>, "", ""),
      Chunk(<<WireUsage(10, 5, 15)>>, FALSE, "", "", <<>>, "", ""),
      Chunk(<<WireUsage(20, 7, 27)>>, TRUE, "", "", <<>>, "stop", ""),
      Chunk(<<>>, TRUE, "", "", <<TcDelta(0, "call_1", "tool_a", FragOpen)>>, "", ""),
      Chunk(<<>>, TRUE, "", "", <<TcDelta(1, "call_2", "tool_b", <<>>)>>, "", ""),
      Chunk(<<>>, TRUE, "", "", <<TcDelta(0, "call_3", "tool_c", FragWhole)>>, "", ""),
      Chunk(<<>>, TRUE, "", "", <<TcDelta(0, "", "", FragClose)>>, "", ""),
      Chunk(<<>>, TRUE, "", "", <<>>, "tool_calls", ""),
      Chunk(<<>>, FALSE, "", "", <<>>, "", "Rate limit exceeded") }

\* ------------------------------------------------------------------- state
VARIABLES
    provider,     \* which adapter runs this stream
    oauth,        \* anthropic: the credential is an OAuth token
    ctxErr,       \* ctx.Err(): "" while the context is live
    ctxAt,        \* how many frames had been read when the context ended (-1: live)
    pc,           \* adapter goroutine: "run", "recv", "ret" (returning), "exit"
    nread,        \* frames read from the transport so far
    frame,        \* what the latest read returned (the current iteration's frame)
    activeTools,  \* map[int]*toolAccum: index -> [id, name, buf]
    usage,        \* running usage snapshot
    doneSent,     \* openrouter's doneSent flag
    toolCalls,    \* claudecode's accumulated []oai.ToolCall
    toolCallID,   \* ollama's call counter
    outbox,       \* events the current iteration still has to push
    events,       \* the buffered channel
    closed,       \* how many times close(events) has run
    sent,         \* log of everything pushed into the channel
    received,     \* what the consumer has received, in order
    wcalls,       \* observer: the tool calls the frames read so far describe
    wusage,       \* observer: the usage values the frames read so far carry
    callOp,       \* the library call in progress or made ("": none)
    callArg,      \* its argument
    callRet,      \* what it returned (<<>>: nothing yet)
    registry,     \* *Registry: its providers map and models slice
    regs,         \* observer: the providers registered so far, in order
    delegated,    \* observer: the provider calls Registry.CreateStream has made
    anthropic,    \* an anthropic Provider instance: its config, mu and quotaChecked
    clock,        \* time.Now(), in minutes
    callers,      \* the goroutines calling into a shared instance: their pc and locals
    lazy,         \* modeldb's dbOnce, db and dbErr
    audit         \* observer: what the callers did to the shared instance

vars == <<provider, oauth, ctxErr, ctxAt, pc, nread, frame, activeTools, usage, doneSent,
          toolCalls, toolCallID, outbox, events, closed, sent, received,
          wcalls, wusage, callOp, callArg, callRet,
          registry, regs, delegated, anthropic, clock, callers, lazy, audit>>

\* The state of the shared instances, which a stream never touches.
instVars == <<registry, regs, anthropic, clock, callers, lazy, audit>>

\* No registry, provider instance or caller exists.
NoInstances ==
    /\ registry = <<>>
    /\ regs = <<>>
    /\ anthropic = <<>>
    /\ clock = 0
    /\ callers = <<>>
    /\ lazy = <<>>
    /\ audit = <<>>

NoFrame == [k |-> "none"]

\* An outbox entry: the event and, for a tool call, the accumulator index it
\* came from.
Out(ev, idx) == [ev |-> ev, idx |-> idx]
Plain(ev) == Out(ev, -1)

\* toolAccum
Accum(id, name, buf) == [id |-> id, name |-> name, buf |-> buf]

\* All orders in which a Go range over a map with key set S may visit it.
Orders(S) ==
    {o \in [1..Cardinality(S) -> S] : \A i, j \in 1..Cardinality(S) : i # j => o[i] # o[j]}

Indexes == {0, 1}

\* The visiting order of one range over the map m, given an order of all keys.
RangeOrder(order, m) == SelectSeq(order, LAMBDA i : i \in DOMAIN m)

\* What one loop iteration leaves behind: the accumulator table, the usage
\* snapshot, the events it pushes (in order) and whether it returns.
Result(tools, us, out, ret) == [tools |-> tools, usage |-> us, out |-> out, ret |-> ret]

\* ------------------------------------------------------------------ openai
RECURSIVE ApplyTcDeltas(_, _)
\* for _, tc := range choice.Delta.ToolCalls { ... }
ApplyTcDeltas(tools, tcs) ==
    IF tcs = <<>> THEN tools
    ELSE LET tc  == Head(tcs)
             cur == IF tc.index \in DOMAIN tools THEN tools[tc.index]
                    ELSE Accum("", "", <<>>)
             new == Accum(IF tc.id # "" THEN tc.id ELSE cur.id,
                          IF tc.name # "" THEN tc.name ELSE cur.name,
                          cur.buf \o tc.args)
         IN  ApplyTcDeltas([i \in DOMAIN tools \cup {tc.index} |->
                               IF i = tc.index THEN new ELSE tools[i]],
                           Tail(tcs))

\* The events emitToolCalls pushes when its range visits the map in `visit`.
emitToolCalls(tools, visit) ==
    [n \in 1..Len(visit) |->
        Out(ToolCallEv(tools[visit[n]].id, tools[visit[n]].name,
                       ParseArgs(tools[visit[n]].buf)),
            visit[n])]

\* openai's emitToolCalls leaves the map as it was.
OpenAIAfterEmit(tools) == tools

OpenAIUsage(u) == Usage(u.prompt, u.completion, u.total)

\* The body of the scan loop for one decoded chunk.
OpenAIChunk(c, tools, us, order) ==
    LET us2 == IF c.usage # <<>> THEN <<OpenAIUsage(c.usage[1])>> ELSE us
    IN  IF ~c.choices THEN Result(tools, us2, <<>>, FALSE)
        ELSE LET t2    == ApplyTcDeltas(tools, c.tcs)
                 delta == IF c.content # "" THEN <<Plain(DeltaEv(c.content))>> ELSE <<>>
                 emit  == c.finish = "tool_calls"
                 calls == IF emit THEN emitToolCalls(t2, RangeOrder(order, t2)) ELSE <<>>
             IN  Result(IF emit THEN OpenAIAfterEmit(t2) ELSE t2, us2, delta \o calls, FALSE)

\* Mutant: the [DONE] branch pushes Done but does not return.
OpenAIParseStreamReadsOn(r, ctx, tools, us, order) ==
    IF r.k = "eof" THEN Result(tools, us, <<>>, TRUE)
    ELSE IF r.k = "readerr"
    THEN Result(tools, us, <<Plain(ErrorEv(Err("stream scan error", r.cause)))>>, TRUE)
    ELSE IF ctx # "" THEN Result(tools, us, <<Plain(ErrorEv(Err("", ctx)))>>, TRUE)
    ELSE IF r.k = "nondata" THEN Result(tools, us, <<>>, FALSE)
    ELSE IF r.k = "[DONE]" THEN Result(tools, us, <<Plain(DoneEv(us))>>, FALSE)
    ELSE IF r.k = "garbage" THEN Result(tools, us, <<>>, FALSE)
    ELSE OpenAIChunk(r, tools, us, order)

\* One turn of `for scanner.Scan()` and what follows the loop.
OpenAIParseStream(r, ctx, tools, us, order) ==
    IF r.k = "eof" THEN Result(tools, us, <<>>, TRUE)
    ELSE IF r.k = "readerr"
    THEN Result(tools, us, <<Plain(ErrorEv(Err("stream scan error", r.cause)))>>, TRUE)
    ELSE IF ctx # "" THEN Result(tools, us, <<Plain(ErrorEv(Err("", ctx)))>>, TRUE)
    ELSE IF r.k = "nondata" THEN Result(tools, us, <<>>, FALSE)
    ELSE IF r.k = "[DONE]" THEN Result(tools, us, <<Plain(DoneEv(us))>>, TRUE)
    ELSE IF r.k = "garbage" THEN Result(tools, us, <<>>, FALSE)
    ELSE OpenAIChunk(r, tools, us, order)

\* -------------------------------------------------------------- openrouter
OpenRouterUsage(u) == Usage(u.prompt, u.completion, u.total)

\* openrouter's emitToolCalls deletes every entry it visits.
OpenRouterAfterEmit(tools) == <<>>

OpenRouterChunk(c, tools, us, order) ==
    IF c.error # ""
    THEN Result(tools, us, <<Plain(ErrorEv(Err("openrouter", c.error)))>>, TRUE)
    ELSE
    LET us2 == IF c.usage # <<>> THEN <<OpenRouterUsage(c.usage[1])>> ELSE us
    IN  IF ~c.choices THEN Result(tools, us2, <<>>, FALSE)
        ELSE LET reason == IF c.reasoning # "" THEN <<Plain(ReasoningEv(c.reasoning))>> ELSE <<>>
                 delta  == IF c.content # "" THEN <<Plain(DeltaEv(c.content))>> ELSE <<>>
                 t2     == ApplyTcDeltas(tools, c.tcs)
                 emit   == c.finish \in {"tool_calls", "stop"}
                 calls  == IF emit THEN emitToolCalls(t2, RangeOrder(order, t2)) ELSE <<>>
             IN  Result(IF emit THEN OpenRouterAfterEmit(t2) ELSE t2, us2,
                        reason \o delta \o calls, FALSE)

\* doneSent is FALSE whenever the loop is left without returning, so the code
\* after the loop always runs; scanner.Err() is never consulted.
OpenRouterParseStream(r, ctx, tools, us, order, done) ==
    IF r.k \in {"eof", "readerr"}
    THEN IF ~done
         THEN Result(OpenRouterAfterEmit(tools), us,
                     emitToolCalls(tools, RangeOrder(order, tools)) \o <<Plain(DoneEv(us))>>,
                     TRUE)
         ELSE Result(tools, us, <<>>, TRUE)
    ELSE IF ctx # "" THEN Result(tools, us, <<Plain(ErrorEv(Err("", ctx)))>>, TRUE)
    ELSE IF r.k = "nondata" THEN Result(tools, us, <<>>, FALSE)
    ELSE IF r.k = "[DONE]"
    THEN Result(tools, us, IF ~done THEN <<Plain(DoneEv(us))>> ELSE <<>>, TRUE)
    ELSE IF r.k = "garbage" THEN Result(tools, us, <<>>, FALSE)
    ELSE OpenRouterChunk(r, tools, us, order)

\* --------------------------------------------------------------- anthropic
AnthropicLines ==
    { [k |-> "nondata"],
      [k |-> "garbage"],
      [k |-> "message_start", input |-> 10],
      [k |-> "message_delta", output |-> 5],
      [k |-> "content_block_start", index |-> 0, type |-> "tool_use",
       id |-> "toolu_1", name |-> "mcp_tool_a"],
      [k |-> "content_block_start", index |-> 1, type |-> "tool_use",
       id |-> "toolu_2", name |-> "tool_b"],
      [k |-> "content_block_start", index |-> 0, type |-> "text", id |-> "", name |-> ""],
      [k |-> "content_block_delta", index |-> 0, type |-> "text_delta",
       text |-> "Hello", json |-> <<>>],
      [k |-> "content_block_delta", index |-> 0, type |-> "input_json_delta",
       text |-> "", json |-> FragOpen],
      [k |-> "content_block_delta", index |-> 0, type |-> "input_json_delta",
       text |-> "", json |-> FragClose],
      [k |-> "content_block_stop", index |-> 0],
      [k |-> "content_block_stop", index |-> 1],
      [k |-> "message_stop"],
      [k |-> "error", decodes |-> TRUE, message |-> "Overloaded"],
      [k |-> "error", decodes |-> FALSE, message |-> ""] }

\* strings.TrimPrefix(name, "mcp_") on the names the frames carry.
maybeStripToolPrefix(name) == IF name = "mcp_tool_a" THEN "tool_a" ELSE name

\* delete(activeTools, idx)
Delete(tools, idx) == [i \in DOMAIN tools \ {idx} |-> tools[i]]

\* The event a content-block stop pushes for the entry at idx.
BlockToolCall(tools, idx) ==
    Out(ToolCallEv(tools[idx].id, tools[idx].name, ParseArgs(tools[idx].buf)), idx)

\* One turn of `for scanner.Scan()`; nothing follows the loop and the adapter
\* has no context.
AnthropicParseStream(r, tools, us, oa) ==
    IF r.k \in {"eof", "readerr"} THEN Result(tools, us, <<>>, TRUE)
    ELSE IF r.k \in {"nondata", "garbage"} THEN Result(tools, us, <<>>, FALSE)
    ELSE IF r.k = "message_start"
    THEN Result(tools, <<[us[1] EXCEPT !.input = r.input]>>, <<>>, FALSE)
    ELSE IF r.k = "message_delta"
    THEN Result(tools,
                <<[us[1] EXCEPT !.output = r.output, !.total = us[1].input + r.output]>>,
                <<>>, FALSE)
    ELSE IF r.k = "content_block_start"
    THEN IF r.type = "tool_use"
         THEN Result([i \in DOMAIN tools \cup {r.index} |->
                         IF i = r.index
                         THEN Accum(r.id,
                                    IF oa THEN maybeStripToolPrefix(r.name) ELSE r.name,
                                    <<>>)
                         ELSE tools[i]],
                     us, <<>>, FALSE)
         ELSE Result(tools, us, <<>>, FALSE)
    ELSE IF r.k = "content_block_delta"
    THEN IF r.type = "text_delta"
         THEN Result(tools, us, <<Plain(DeltaEv(r.text))>>, FALSE)
         ELSE IF r.type = "input_json_delta" /\ r.index \in DOMAIN tools
         THEN Result([tools EXCEPT ![r.index].buf = @ \o r.json], us, <<>>, FALSE)
         ELSE Result(tools, us, <<>>, FALSE)
    ELSE IF r.k = "content_block_stop"
    THEN IF r.index \in DOMAIN tools
         THEN Result(Delete(tools, r.index), us, <<BlockToolCall(tools, r.index)>>, FALSE)
         ELSE Result(tools, us, <<>>, FALSE)
    ELSE IF r.k = "message_stop" THEN Result(tools, us, <<Plain(DoneEv(us))>>, TRUE)
    ELSE \* "error"
         Result(tools, us,
                IF r.decodes THEN <<Plain(ErrorEv(Err("anthropic", r.message)))>> ELSE <<>>,
                TRUE)

\* ----------------------------------------------------------------- bedrock
BedrockEvents ==
    { [k |-> "ContentBlockStart", index |-> 0, id |-> "tooluse_1", name |-> "tool_a"],
      [k |-> "ContentBlockStart", index |-> 1, id |-> "tooluse_2", name |-> "tool_b"],
      [k |-> "ContentBlockDelta", index |-> 0, type |-> "text", text |-> "Hello", input |-> <<>>],
      [k |-> "ContentBlockDelta", index |-> 0, type |-> "toolUse", text |-> "", input |-> FragOpen],
      [k |-> "ContentBlockDelta", index |-> 0, type |-> "toolUse", text |-> "", input |-> FragClose],
      [k |-> "ContentBlockStop", index |-> 0],
      [k |-> "ContentBlockStop", index |-> 1],
      [k |-> "Metadata", usage |-> <<>>],
      [k |-> "Metadata", usage |-> <<WireUsage(10, 5, 15)>>],
      [k |-> "MessageStop"] }

BedrockUsage(u) == Usage(u.prompt, u.completion, u.total)

\* One turn of `for event := range stream.Events()` and the stream.Err()
\* check after it.  Usage.Cost comes from the pricing table and is left out.
BedrockParseStream(r, ctx, tools, us) ==
    IF r.k = "eof" THEN Result(tools, us, <<>>, TRUE)
    ELSE IF r.k = "readerr"
    THEN Result(tools, us, <<Plain(ErrorEv(Err("bedrock stream", r.cause)))>>, TRUE)
    ELSE IF ctx # "" THEN Result(tools, us, <<Plain(ErrorEv(Err("", ctx)))>>, TRUE)
    ELSE IF r.k = "ContentBlockStart"
    THEN Result([i \in DOMAIN tools \cup {r.index} |->
                    IF i = r.index THEN Accum(r.id, r.name, <<>>) ELSE tools[i]],
                us, <<>>, FALSE)
    ELSE IF r.k = "ContentBlockDelta"
    THEN IF r.type = "text"
         THEN Result(tools, us, <<Plain(DeltaEv(r.text))>>, FALSE)
         ELSE IF r.index \in DOMAIN tools
         THEN Result([tools EXCEPT ![r.index].buf = @ \o r.input], us, <<>>, FALSE)
         ELSE Result(tools, us, <<>>, FALSE)
    ELSE IF r.k = "ContentBlockStop"
    THEN IF r.index \in DOMAIN tools
         THEN Result(Delete(tools, r.index), us, <<BlockToolCall(tools, r.index)>>, FALSE)
         ELSE Result(tools, us, <<>>, FALSE)
    ELSE IF r.k = "Metadata"
    THEN LET us2 == IF r.usage # <<>> THEN <<BedrockUsage(r.usage[1])>> ELSE us
         IN  Result(tools, us2, <<Plain(DoneEv(us2))>>, TRUE)
    ELSE \* "MessageStop": wait for the metadata event
         Result(tools, us, <<>>, FALSE)

\* ------------------------------------------------------------------ ollama
\* One element of message.tool_calls.  The arguments are a JSON object inside
\* the line (absent: <<>>), decoded together with the line.
OllamaCall(name, args) == [name |-> name, args |-> args]

OllamaChunk(content, calls, done) ==
    [k |-> "chunk", content |-> content, calls |-> calls, done |-> done]

OllamaLines ==
    { [k |-> "blank"],
      [k |-> "garbage"],
      OllamaChunk("Hello", <<>>, FALSE),
      OllamaChunk("", <<OllamaCall("tool_a", FragOpen \o FragClose)>>, FALSE),
      OllamaChunk("", <<OllamaCall("tool_a", FragOpen \o FragClose),
                        OllamaCall("tool_b", <<>>)>>, FALSE),
      OllamaChunk("", <<>>, TRUE) }

\* fmt.Sprintf("call_%d", n)
CallID(n) == "call_" \o ToString(n)

\* One turn of `for scanner.Scan()` and the scanner.Err() check after it; the
\* adapter has no context.  The result's tools field is unused.
OllamaParseStream(r, us, id) ==
    IF r.k = "eof" THEN Result(<<>>, us, <<>>, TRUE)
    ELSE IF r.k = "readerr"
    THEN Result(<<>>, us, <<Plain(ErrorEv(Err("scan stream", r.cause)))>>, TRUE)
    ELSE IF r.k = "blank" THEN Result(<<>>, us, <<>>, FALSE)
    ELSE IF r.k = "garbage"
    THEN Result(<<>>, us, <<Plain(ErrorEv(Err("parse chunk", "invalid character")))>>, TRUE)
    ELSE LET delta == IF r.content # "" THEN <<Plain(DeltaEv(r.content))>> ELSE <<>>
             calls == [n \in 1..Len(r.calls) |->
                          Out(ToolCallEv(CallID(id + n), r.calls[n].name,
                                         UnmarshalArgs(r.calls[n].args)),
                              n - 1)]
             done  == IF r.done THEN <<Plain(DoneEv(us))>> ELSE <<>>
         IN  Result(<<>>, us, delta \o calls \o done, r.done)

\* -------------------------------------------------------------- claudecode
CCChunk(u, choices, content, tcs, finish) ==
    [k |-> "chunk", usage |-> u, choices |-> choices, content |-> content,
     tcs |-> tcs, finish |-> finish]

\* oai.ToolCall
CCToolCall(id, name, args) == [id |-> id, name |-> name, args |-> args]

CCChunks ==
    { CCChunk(<<WireUsage(10, 5, 15)>>, FALSE, "", <<>>, ""),
      CCChunk(<<WireUsage(20, 7, 27)>>, TRUE, "", <<>>, "stop"),
      CCChunk(<<>>, TRUE, "Hello", <<>>, ""),
      CCChunk(<<>>, TRUE, "", <<CCToolCall("call_1", "tool_a", FragWhole)>>, ""),
      CCChunk(<<>>, TRUE, "", <<CCToolCall("call_2", "tool_b", FragOpen)>>, ""),
      CCChunk(<<>>, TRUE, "", <<CCToolCall("", "", FragClose)>>, ""),
      CCChunk(<<>>, TRUE, "", <<>>, "tool_calls") }

\* The events the finish branch pushes for the accumulated calls: calls
\* without a function name are skipped.
CCEmit(tcs) ==
    LET named == {n \in 1..Len(tcs) : tcs[n].name # ""}
        keep  == SelectSeq([n \in 1..Len(tcs) |-> n], LAMBDA n : n \in named)
    IN  [m \in 1..Len(keep) |->
            Out(ToolCallEv(tcs[keep[m]].id, tcs[keep[m]].name, ParseArgs(tcs[keep[m]].args)),
                keep[m] - 1)]

\* The select at the top of the loop.
CCCheckCancelled(ctx) == ctx # ""

\* What follows stream.Recv() in one turn of the loop.  The result's tools
\* field holds the accumulated toolCalls slice.
CCStreamEvents(r, calls, us) ==
    IF r.k = "eof" THEN Result(calls, us, <<Plain(DoneEv(us))>>, TRUE)
    ELSE IF r.k = "readerr"
    THEN Result(calls, us, <<Plain(ErrorEv(Err("stream error", r.cause)))>>, TRUE)
    ELSE IF ~r.choices THEN Result(calls, us, <<>>, FALSE)
    ELSE LET delta  == IF r.content # "" THEN <<Plain(DeltaEv(r.content))>> ELSE <<>>
             calls2 == calls \o r.tcs
             emit   == r.finish # "" /\ Len(calls2) > 0
             us2    == IF r.usage # <<>>
                       THEN <<Usage(r.usage[1].prompt, r.usage[1].completion, r.usage[1].total)>>
                       ELSE us
         IN  Result(IF emit THEN <<>> ELSE calls2, us2,
                    delta \o (IF emit THEN CCEmit(calls2) ELSE <<>>), FALSE)

\* ---------------------------------------------------------------- observer
\* What the frames themselves say, independently of any adapter state: which
\* tool calls they start, extend and finish, and which usage values they
\* report.  The claims compare the adapters' events with this record.

\* A tool call on the wire: its index, the id and name of its start frame, the
\* fragments received for it concatenated in arrival order, the number of the
\* frame that started it and of the frame that finished it (0: still open,
\* -1: replaced by another start at its index), whether its index was free
\* when it started, and whether a start frame introduced it at all.
WCall(idx, id, name, text, start, stop, clean, real) ==
    [idx |-> idx, id |-> id, name |-> name, text |-> text, start |-> start,
     stop |-> stop, clean |-> clean, real |-> real]

OpenAt(wc, idx) == {k \in DOMAIN wc : wc[k].idx = idx /\ wc[k].stop = 0}

\* A start frame for idx: any call still open there is replaced.
WStart(wc, idx, id, name, text, n) ==
    Append([k \in DOMAIN wc |-> IF k \in OpenAt(wc, idx) THEN [wc[k] EXCEPT !.stop = -1]
                                ELSE wc[k]],
           WCall(idx, id, name, text, n, 0, OpenAt(wc, idx) = {}, TRUE))

\* An argument fragment for idx.  keepOrphan: a fragment for an index with no
\* open call is recorded as a call without a start frame.
WFragment(wc, idx, text, n, keepOrphan) ==
    IF OpenAt(wc, idx) # {}
    THEN [k \in DOMAIN wc |-> IF k \in OpenAt(wc, idx) THEN [wc[k] EXCEPT !.text = @ \o text]
                              ELSE wc[k]]
    ELSE IF keepOrphan THEN Append(wc, WCall(idx, "", "", text, n, 0, TRUE, FALSE))
    ELSE wc

\* A stop frame for idx, and a finish frame for every open call.
WStop(wc, idx, n) ==
    [k \in DOMAIN wc |-> IF k \in OpenAt(wc, idx) THEN [wc[k] EXCEPT !.stop = n] ELSE wc[k]]

WFinish(wc, n) ==
    [k \in DOMAIN wc |-> IF wc[k].stop = 0 THEN [wc[k] EXCEPT !.stop = n] ELSE wc[k]]

RECURSIVE WDeltas(_, _, _)
\* The tool_calls array of an OpenAI-compatible chunk: an element with an id
\* starts a call, one without continues the call at its index.
WDeltas(wc, tcs, n) ==
    IF tcs = <<>> THEN wc
    ELSE LET tc == Head(tcs)
         IN  WDeltas(IF tc.id # "" THEN WStart(wc, tc.index, tc.id, tc.name, tc.args, n)
                     ELSE WFragment(wc, tc.index, tc.args, n, TRUE),
                     Tail(tcs), n)

RECURSIVE WWhole(_, _, _, _)
\* Calls that arrive whole, one per array element, at consecutive positions
\* counted from pos.
WWhole(wc, tcs, pos, n) ==
    IF tcs = <<>> THEN wc
    ELSE LET tc == Head(tcs)
         IN  WWhole(Append(wc, WCall(pos, tc.id, tc.name, tc.args, n, 0, TRUE, tc.name # "")),
                    Tail(tcs), pos + 1, n)

ObserveCalls(prov, r, n, wc) ==
    IF prov \in {"openai", "openrouter"}
    THEN IF r.k = "chunk" /\ r.choices
         THEN LET wc2 == WDeltas(wc, r.tcs, n)
              IN  IF r.finish # "" THEN WFinish(wc2, n) ELSE wc2
         ELSE wc
    ELSE IF prov = "anthropic"
    THEN IF r.k = "content_block_start" /\ r.type = "tool_use"
         THEN WStart(wc, r.index, r.id, r.name, <<>>, n)
         ELSE IF r.k = "content_block_delta" /\ r.type = "input_json_delta"
         THEN WFragment(wc, r.index, r.json, n, FALSE)
         ELSE IF r.k = "content_block_stop" THEN WStop(wc, r.index, n)
         ELSE wc
    ELSE IF prov = "bedrock"
    THEN IF r.k = "ContentBlockStart" THEN WStart(wc, r.index, r.id, r.name, <<>>, n)
         ELSE IF r.k = "ContentBlockDelta" /\ r.type = "toolUse"
         THEN WFragment(wc, r.index, r.input, n, FALSE)
         ELSE IF r.k = "ContentBlockStop" THEN WStop(wc, r.index, n)
         ELSE wc
    ELSE IF prov = "ollama"
    THEN IF r.k = "chunk"
         THEN WFinish(WWhole(wc, [i \in 1..Len(r.calls) |->
                                     [id |-> "", name |-> r.calls[i].name,
                                      args |-> r.calls[i].args]], 0, n), n)
         ELSE wc
    ELSE \* claudecode
         IF r.choices
         THEN LET wc2 == WWhole(wc, r.tcs, Cardinality({k \in DOMAIN wc : wc[k].stop = 0}), n)
              IN  IF r.finish # "" THEN WFinish(wc2, n) ELSE wc2
         ELSE wc

\* The usage values on the wire: for each field, the value of the most recent
\* frame that carried it (has: some frame carried usage).
NoWireUsage == [has |-> FALSE, input |-> 0, output |-> 0]

ObserveUsage(prov, r, wu) ==
    IF prov \in {"openai", "openrouter", "claudecode"}
    THEN IF r.k = "chunk" /\ r.usage # <<>>
         THEN [has |-> TRUE, input |-> r.usage[1].prompt, output |-> r.usage[1].completion]
         ELSE wu
    ELSE IF prov = "anthropic"
    THEN IF r.k = "message_start" THEN [wu EXCEPT !.has = TRUE, !.input = r.input]
         ELSE IF r.k = "message_delta" THEN [wu EXCEPT !.has = TRUE, !.output = r.output]
         ELSE wu
    ELSE IF prov = "bedrock"
    THEN IF r.k = "Metadata" /\ r.usage # <<>>
         THEN [has |-> TRUE, input |-> r.usage[1].prompt, output |-> r.usage[1].completion]
         ELSE wu
    ELSE wu

\* ------------------------------------------------------------------ actions
\* What a read may return: a frame while the transport has some, end of
\* input, or a failure.
Reads(frames) ==
    (IF nread < MaxFrames THEN frames ELSE {}) \cup {EOF} \cup ReadFailures(ctxErr)

IsFrame(r) == r.k \notin {"eof", "readerr"}

\* The adapter leaves one iteration in the state res, having read r.
Iterate(r, res) ==
    /\ frame' = r
    /\ nread' = IF IsFrame(r) THEN nread + 1 ELSE nread
    /\ wcalls' = IF IsFrame(r) THEN ObserveCalls(provider, r, nread + 1, wcalls) ELSE wcalls
    /\ wusage' = IF IsFrame(r) THEN ObserveUsage(provider, r, wusage) ELSE wusage
    /\ activeTools' = res.tools
    /\ usage' = res.usage
    /\ outbox' = res.out
    /\ pc' = IF res.ret THEN "ret" ELSE "run"

OpenAIStep ==
    /\ provider = "openai" /\ pc = "run" /\ outbox = <<>>
    /\ \E r \in Reads(OAILines) : \E order \in Orders(Indexes) :
          Iterate(r, OpenAIParseStream(r, ctxErr, activeTools, usage, order))
    /\ UNCHANGED <<instVars, delegated, callOp, callArg, callRet, provider, oauth, ctxErr, ctxAt, doneSent, toolCalls, toolCallID,
                   events, closed, sent, received>>

OpenRouterStep ==
    /\ provider = "openrouter" /\ pc = "run" /\ outbox = <<>>
    /\ \E r \in Reads(OAILines) : \E order \in Orders(Indexes) :
          /\ Iterate(r, OpenRouterParseStream(r, ctxErr, activeTools, usage, order, doneSent))
          /\ doneSent' = (doneSent \/ (r.k = "[DONE]" /\ ctxErr = ""))
    /\ UNCHANGED <<instVars, delegated, callOp, callArg, callRet, provider, oauth, ctxErr, ctxAt, toolCalls, toolCallID,
                   events, closed, sent, received>>

AnthropicStep ==
    /\ provider = "anthropic" /\ pc = "run" /\ outbox = <<>>
    /\ \E r \in Reads(AnthropicLines) :
          Iterate(r, AnthropicParseStream(r, activeTools, usage, oauth))
    /\ UNCHANGED <<instVars, delegated, callOp, callArg, callRet, provider, oauth, ctxErr, ctxAt, doneSent, toolCalls, toolCallID,
                   events, closed, sent, received>>

BedrockStep ==
    /\ provider = "bedrock" /\ pc = "run" /\ outbox = <<>>
    /\ \E r \in Reads(BedrockEvents) :
          Iterate(r, BedrockParseStream(r, ctxErr, activeTools, usage))
    /\ UNCHANGED <<instVars, delegated, callOp, callArg, callRet, provider, oauth, ctxErr, ctxAt, doneSent, toolCalls, toolCallID,
                   events, closed, sent, received>>

OllamaStep ==
    /\ provider = "ollama" /\ pc = "run" /\ outbox = <<>>
    /\ \E r \in Reads(OllamaLines) :
          /\ Iterate(r, [OllamaParseStream(r, usage, toolCallID) EXCEPT !.tools = activeTools])
          /\ toolCallID' = IF r.k = "chunk" THEN toolCallID + Len(r.calls) ELSE toolCallID
    /\ UNCHANGED <<instVars, delegated, callOp, callArg, callRet, provider, oauth, ctxErr, ctxAt, doneSent, toolCalls,
                   events, closed, sent, received>>

\* claudecode checks the context before it blocks in stream.Recv().
ClaudeCodeCheck ==
    /\ provider = "claudecode" /\ pc = "run" /\ outbox = <<>>
    /\ IF CCCheckCancelled(ctxErr)
       THEN /\ outbox' = <<Plain(ErrorEv(Err("", ctxErr)))>>
            /\ pc' = "ret"
       ELSE /\ outbox' = outbox
            /\ pc' = "recv"
    /\ UNCHANGED <<instVars, delegated, callOp, callArg, callRet, provider, oauth, ctxErr, ctxAt, nread, frame, activeTools, usage, doneSent,
                   toolCalls, toolCallID, events, closed, sent, received, wcalls, wusage>>

ClaudeCodeRecv ==
    /\ provider = "claudecode" /\ pc = "recv"
    /\ \E r \in Reads(CCChunks) :
          LET res == CCStreamEvents(r, toolCalls, usage)
          IN  /\ Iterate(r, [res EXCEPT !.tools = activeTools])
              /\ toolCalls' = res.tools
    /\ UNCHANGED <<instVars, delegated, callOp, callArg, callRet, provider, oauth, ctxErr, ctxAt, doneSent, toolCallID,
                   events, closed, sent, received>>

\* Mutant: a send to a full channel gives the event up.
SendOrDrop ==
    /\ outbox # <<>>
    /\ closed = 0
    /\ events' = IF Len(events) < ChanCap THEN Append(events, Head(outbox).ev) ELSE events
    /\ sent' = IF Len(events) < ChanCap
               THEN Append(sent, [ev |-> Head(outbox).ev, idx |-> Head(outbox).idx,
                                  at |-> nread, by |-> frame])
               ELSE sent
    /\ outbox' = Tail(outbox)
    /\ UNCHANGED <<instVars, delegated, callOp, callArg, callRet, provider, oauth, ctxErr, ctxAt, pc, nread, frame, activeTools, usage, doneSent,
                   toolCalls, toolCallID, closed, received, wcalls, wusage>>

\* events <- ev : blocks while the channel is full.
Send ==
    /\ outbox # <<>>
    /\ closed = 0
    /\ Len(events) < ChanCap
    /\ events' = Append(events, Head(outbox).ev)
    /\ sent' = Append(sent, [ev |-> Head(outbox).ev, idx |-> Head(outbox).idx,
                             at |-> nread, by |-> frame])
    /\ outbox' = Tail(outbox)
    /\ UNCHANGED <<instVars, delegated, callOp, callArg, callRet, provider, oauth, ctxErr, ctxAt, pc, nread, frame, activeTools, usage, doneSent,
                   toolCalls, toolCallID, closed, received, wcalls, wusage>>

\* Mutant: an exit path that returns without closing the channel.
CloseForgotten ==
    /\ pc = "ret" /\ outbox = <<>>
    /\ pc' = "exit"
    /\ UNCHANGED <<instVars, delegated, callOp, callArg, callRet, provider, oauth, ctxErr, ctxAt, nread, frame, activeTools, usage, doneSent,
                   toolCalls, toolCallID, outbox, events, closed, sent, received, wcalls, wusage>>

\* defer close(events), run when the adapter function returns.
Close ==
    /\ pc = "ret" /\ outbox = <<>>
    /\ closed' = closed + 1
    /\ pc' = "exit"
    /\ UNCHANGED <<instVars, delegated, callOp, callArg, callRet, provider, oauth, ctxErr, ctxAt, nread, frame, activeTools, usage, doneSent,
                   toolCalls, toolCallID, outbox, events, sent, received, wcalls, wusage>>

\* The consumer's `for event := range events`.
Recv ==
    /\ events # <<>>
    /\ received' = Append(received, Head(events))
    /\ events' = Tail(events)
    /\ UNCHANGED <<instVars, delegated, callOp, callArg, callRet, provider, oauth, ctxErr, ctxAt, pc, nread, frame, activeTools, usage, doneSent,
                   toolCalls, toolCallID, outbox, closed, sent, wcalls, wusage>>

\* The caller cancels the request context, or its deadline passes.
Cancel ==
    /\ ctxErr = ""
    /\ pc \in {"run", "recv"}
    /\ \E c \in CtxCauses : ctxErr' = c
    /\ ctxAt' = nread
    /\ UNCHANGED <<instVars, delegated, callOp, callArg, callRet, provider, oauth, pc, nread, frame, activeTools, usage, doneSent,
                   toolCalls, toolCallID, outbox, events, closed, sent, received, wcalls, wusage>>

\* The state right after a successful stream-creation call: the channel is
\* made and the adapter goroutine is about to enter its loop.
Init ==
    /\ provider \in Providers
    /\ oauth \in (IF provider = "anthropic" THEN BOOLEAN ELSE {FALSE})
    /\ ctxErr = ""
    /\ ctxAt = -1
    /\ pc = "run"
    /\ nread = 0
    /\ frame = NoFrame
    /\ activeTools = <<>>
    /\ usage = IF provider \in {"openai", "openrouter"} THEN <<>> ELSE <<ZeroUsage>>
    /\ doneSent = FALSE
    /\ toolCalls = <<>>
    /\ toolCallID = 0
    /\ outbox = <<>>
    /\ events = <<>>
    /\ closed = 0
    /\ sent = <<>>
    /\ received = <<>>
    /\ wcalls = <<>>
    /\ wusage = NoWireUsage
    /\ callOp = ""
    /\ callArg = <<>>
    /\ callRet = <<>>
    /\ NoInstances
    /\ delegated = <<>>

Next ==
    \/ OpenAIStep
    \/ OpenRouterStep
    \/ AnthropicStep
    \/ BedrockStep
    \/ OllamaStep
    \/ ClaudeCodeCheck
    \/ ClaudeCodeRecv
    \/ Send
    \/ Close
    \/ Recv
    \/ Cancel

Spec == Init /\ [][Next]_vars

\* ------------------------------------------------------------------ claims
\* Everything the adapter has pushed or is about to push, in order.
Pipeline == [i \in 1..Len(sent) |-> sent[i].ev] \o [i \in 1..Len(outbox) |-> outbox[i].ev]

Last(q) == q[Len(q)]

\* C1: at most one terminal event (done or error) is produced per stream, it
\* is the last event pushed and the last event the consumer receives, and
\* once it is produced the adapter only returns and closes the channel.
C1_TerminalIsLast ==
    /\ \A i \in 1..Len(Pipeline) : IsTerminal(Pipeline[i]) => i = Len(Pipeline)
    /\ \A i \in 1..Len(received) :
          IsTerminal(received[i]) => (i = Len(received) /\ events = <<>> /\ outbox = <<>>)
    /\ (\E i \in 1..Len(Pipeline) : IsTerminal(Pipeline[i])) => pc \in {"ret", "exit"}

\* C1 witness: a consumer has drained a closed stream of several events that
\* ends with its terminal event.
C1_Witness ==
    /\ closed = 1 /\ events = <<>>
    /\ Len(received) >= 3
    /\ IsTerminal(Last(received))

\* C2: a channel is never closed before a terminal event has been pushed.
C2_TerminalBeforeClose ==
    closed >= 1 => (sent # <<>> /\ IsTerminal(Last(sent).ev))

\* C3: close(events) runs exactly once, when the adapter goroutine returns;
\* the channel is open while the adapter runs, closed once it has exited, and
\* nothing is pushed into a closed channel.
C3_ClosedExactlyOnce ==
    /\ closed \in {0, 1}
    /\ (pc = "exit") <=> (closed = 1)
    /\ closed = 1 => outbox = <<>>
    /\ (pc \in {"run", "recv"}) => closed = 0

\* C3 witness: an adapter that left its loop on cancellation has closed the
\* channel.
C3_Witness ==
    /\ closed = 1 /\ pc = "exit"
    /\ sent # <<>> /\ Last(sent).ev = ErrorEv(Err("", ctxErr))

\* An adapter begins a loop iteration: the scanner adapters when a read
\* returns a frame, claudecode when it passes the select before Recv.
IterationStarts ==
    \/ provider # "claudecode" /\ nread' = nread + 1
    \/ provider = "claudecode" /\ pc = "run" /\ pc' # "run"

\* C4: an iteration that starts with the context cancelled pushes exactly one
\* event, Error{ctx.Err()}, translates nothing of its frame and returns.
C4_CancelStopsAtNextFrame ==
    [][(ctxErr # "" /\ IterationStarts) =>
          /\ outbox' = <<Plain(ErrorEv(Err("", ctxErr)))>>
          /\ pc' = "ret"
          /\ activeTools' = activeTools /\ usage' = usage /\ toolCalls' = toolCalls]_vars

\* C5: for every provider, a stream whose context ended while frames were
\* still arriving ends with an Error event whose cause is the context error.
C5_EveryProviderHonoursCancel ==
    (closed = 1 /\ ctxAt >= 0 /\ nread > ctxAt) =>
        /\ sent # <<>>
        /\ Last(sent).ev.type = "error"
        /\ Last(sent).ev.err.cause = ctxErr

\* Everything pushed so far with the number of the frame whose iteration
\* pushed it: the outbox holds events of the current iteration.
Emitted ==
    [i \in 1..Len(sent) |-> [ev |-> sent[i].ev, idx |-> sent[i].idx, at |-> sent[i].at]]
    \o [i \in 1..Len(outbox) |-> [ev |-> outbox[i].ev, idx |-> outbox[i].idx, at |-> nread]]

ToolCallsOf == {i \in DOMAIN Emitted : Emitted[i].ev.type = "tool_call"}

\* The wire call a ToolCall event pushed at frame `at` for index idx stands
\* for: the latest call started at that index (0: none).
RefCall(idx, at) ==
    LET S == {k \in DOMAIN wcalls : wcalls[k].idx = idx /\ wcalls[k].start <= at}
    IN  IF S = {} THEN 0 ELSE CHOOSE k \in S : \A m \in S : m <= k

\* C6: events are pushed in the order of the frames that caused them and
\* received in the order pushed; ToolCall events pushed by one frame come in
\* the order in which their calls' start frames arrived.
C6_WireOrder ==
    /\ \A i, j \in DOMAIN Emitted : i < j => Emitted[i].at <= Emitted[j].at
    /\ \A i \in DOMAIN received : received[i] = sent[i].ev
    /\ \A i, j \in ToolCallsOf :
          LET ci == RefCall(Emitted[i].idx, Emitted[i].at)
              cj == RefCall(Emitted[j].idx, Emitted[j].at)
          IN  (/\ i < j /\ Emitted[i].at = Emitted[j].at
               /\ ci # 0 /\ cj # 0 /\ wcalls[ci].real /\ wcalls[cj].real) => ci < cj

\* The name the adapter reports for a wire name: the anthropic adapter with
\* OAuth strips its own tool prefix.
ReportedName(name) ==
    IF provider = "anthropic" /\ oauth THEN maybeStripToolPrefix(name) ELSE name

\* The ToolCall events pushed for the wire call k: those for its index from its
\* start frame on and before the next start at that index.
EventsFor(k) ==
    {i \in ToolCallsOf : Emitted[i].idx = wcalls[k].idx /\ RefCall(Emitted[i].idx, Emitted[i].at) = k}

\* The adapter translated frame n: the context was not done when the
\* iteration of frame n began.
Translated(n) == ctxAt = -1 \/ ctxAt >= n

\* C7: a tool call that a start frame opened at a free index and a stop or
\* finish frame closed has exactly one ToolCall event, pushed by the frame
\* that closed it, with the id and name of the start frame and the parse of
\* its concatenated fragments as arguments.
C7_OneToolCallPerCall ==
    \A k \in DOMAIN wcalls :
        LET c == wcalls[k]
        IN  (c.real /\ c.clean /\ c.stop > 0 /\ Translated(c.stop))
               => /\ Cardinality(EventsFor(k)) = 1
                  /\ \A i \in EventsFor(k) :
                        /\ Emitted[i].at = c.stop
                        /\ c.id # "" => Emitted[i].ev.id = c.id
                        /\ Emitted[i].ev.name = ReportedName(c.name)
                        /\ Emitted[i].ev.args = UnmarshalArgs(c.text)

\* C8: an iteration that pushes ToolCall events leaves no accumulator entry
\* for their indexes, and an index gets a second ToolCall event only after a
\* new start or fragment for it arrived.
C8_EntryRemoved ==
    /\ \A n \in DOMAIN outbox :
          outbox[n].ev.type = "tool_call"
             => /\ outbox[n].idx \notin DOMAIN activeTools
                /\ toolCalls = <<>>
    /\ \A i, j \in ToolCallsOf :
          (i < j /\ Emitted[i].idx = Emitted[j].idx)
             => \E k \in DOMAIN wcalls :
                   /\ wcalls[k].idx = Emitted[i].idx
                   /\ Emitted[i].at < wcalls[k].start
                   /\ wcalls[k].start <= Emitted[j].at

\* The frames at which an adapter finalizes its open accumulator entries.
Finalizes(prov, f) ==
    IF prov = "openai" THEN f.k = "chunk" /\ f.choices /\ f.finish = "tool_calls"
    ELSE IF prov = "openrouter"
    THEN f.k = "chunk" /\ f.choices /\ f.finish \in {"tool_calls", "stop"}
    ELSE IF prov = "anthropic" THEN f.k = "content_block_stop"
    ELSE IF prov = "bedrock" THEN f.k = "ContentBlockStop"
    ELSE IF prov = "ollama" THEN f.k = "chunk"
    ELSE f.choices /\ f.finish # ""

Malformed(text) == text # <<>> /\ UnmarshalArgs(text) = <<>>

\* C9: when the frame just translated finalizes a call whose text does not
\* parse, exactly one ToolCall event with nil or empty arguments is pushed
\* for it, no Error event is pushed, and the adapter stays in its loop.
C9_MalformedArgsTolerated ==
    \A k \in DOMAIN wcalls :
        LET c == wcalls[k]
        IN  (/\ c.real /\ c.clean /\ c.stop = nread /\ Malformed(c.text)
             /\ IsFrame(frame) /\ Finalizes(provider, frame) /\ ctxErr = "")
               => /\ Cardinality({i \in ToolCallsOf :
                                     /\ Emitted[i].at = nread
                                     /\ Emitted[i].idx = c.idx
                                     /\ Emitted[i].ev.id = c.id
                                     /\ Emitted[i].ev.args \in {<<>>, <<{}>>}}) = 1
                  /\ \A i \in ToolCallsOf :
                        (Emitted[i].at = nread /\ Emitted[i].idx = c.idx)
                           => Emitted[i].ev.args \in {<<>>, <<{}>>}
                  /\ \A i \in DOMAIN Emitted : Emitted[i].ev.type # "error"
                  /\ pc \in {"run", "recv"}

\* C9 witness: the call with the unterminated text has been closed and its
\* ToolCall event with nil arguments received, and the stream went on to Done.
C9_Witness ==
    /\ \E k \in DOMAIN wcalls :
          /\ wcalls[k].real /\ wcalls[k].stop > 0 /\ wcalls[k].text = FragOpen
          /\ \E i \in DOMAIN received :
                /\ received[i].type = "tool_call"
                /\ received[i].id = wcalls[k].id
                /\ received[i].args = <<>>
    /\ received # <<>> /\ Last(received).type = "done"
    /\ closed = 1

\* Frames that carry usage and nothing else.
UsageOnly(prov, f) ==
    IF prov \in {"openai", "openrouter", "claudecode"}
    THEN f.k = "chunk" /\ f.usage # <<>> /\ ~f.choices
    ELSE IF prov = "anthropic" THEN f.k \in {"message_start", "message_delta"}
    ELSE IF prov = "bedrock" THEN f.k = "Metadata"
    ELSE FALSE

\* C10: only Done carries usage, a frame that carries only usage pushes no
\* event of its own (at most the terminal one), and Done carries the values
\* of the most recent usage frame.
C10_UsageOnDone ==
    /\ \A i \in DOMAIN Emitted :
          Emitted[i].ev.type # "done" => Emitted[i].ev.usage = <<>>
    /\ \A i \in DOMAIN sent :
          (IsFrame(sent[i].by) /\ UsageOnly(provider, sent[i].by)) => IsTerminal(sent[i].ev)
    /\ \A i \in DOMAIN Emitted :
          (Emitted[i].ev.type = "done" /\ wusage.has)
             => /\ Emitted[i].ev.usage # <<>>
                /\ Emitted[i].ev.usage[1].input = wusage.input
                /\ Emitted[i].ev.usage[1].output = wusage.output

\* C11: when a read of the transport fails, the adapter's last event is an
\* Error event carrying the cause of the failure, and it pushes no Done event.
C11_ReadFailureIsError ==
    frame.k = "readerr"
       => /\ Pipeline # <<>>
          /\ Last(Pipeline).type = "error"
          /\ Last(Pipeline).err.cause = frame.cause
          /\ \A i \in DOMAIN Pipeline : Pipeline[i].type # "done"

\* ------------------------------------------------------- library: messages
\* The library's synchronous operations are modelled as calls: callOp names
\* the operation, callArg is its argument and callRet what it returned.
NotCalled == <<>>

\* Bound on the number of tool calls, tools and messages in one argument.
MaxCalls == 2

\* error values of the library: "" is nil, otherwise the error's text.
NilError == ""

\* llm.ToolCall; Arguments is <<>> for a nil map, <<v>> for the map v.
ToolCall(id, name, args) == [ID |-> id, Name |-> name, Arguments |-> args]

SystemMsg(content) == [role |-> "system", Content |-> content]
UserMsg(content) == [role |-> "user", Content |-> content]
AssistantMsg(content, tcs) == [role |-> "assistant", Content |-> content, ToolCalls |-> tcs]
ToolCallResult(id, output, isError) ==
    [role |-> "tool", ToolCallID |-> id, Output |-> output, IsError |-> isError]

\* func (tc ToolCall) Validate() error
ToolCallValidate(tc) ==
    IF tc.ID = "" THEN "tool call: id is required"
    ELSE IF tc.Name = "" THEN "tool call: name is required"
    ELSE NilError

SystemMsgValidate(m) ==
    IF m.Content = "" THEN "system message: content is required" ELSE NilError

UserMsgValidate(m) ==
    IF m.Content = "" THEN "user message: content is required" ELSE NilError

\* Mutant: an assistant message is checked for content or tool calls only.
AssistantMsgValidateShallow(m) ==
    IF m.Content = "" /\ Len(m.ToolCalls) = 0
    THEN "assistant message: content or tool_calls is required"
    ELSE NilError

\* The first tool call that fails validation decides the error.
AssistantMsgValidate(m) ==
    IF m.Content = "" /\ Len(m.ToolCalls) = 0
    THEN "assistant message: content or tool_calls is required"
    ELSE LET bad == {i \in DOMAIN m.ToolCalls : ToolCallValidate(m.ToolCalls[i]) # NilError}
         IN  IF bad = {} THEN NilError
             ELSE LET i == CHOOSE i \in bad : \A j \in bad : i <= j
                  IN  "assistant message: tool_calls[" \o ToString(i - 1) \o "]: "
                         \o ToolCallValidate(m.ToolCalls[i])

ToolCallResultValidate(m) ==
    IF m.ToolCallID = "" THEN "tool call result: tool_call_id is required"
    ELSE IF m.Output = "" THEN "tool call result: output is required"
    ELSE NilError

\* Message.Validate(): dispatch on the concrete type.
MessageValidate(m) ==
    IF m.role = "system" THEN SystemMsgValidate(m)
    ELSE IF m.role = "user" THEN UserMsgValidate(m)
    ELSE IF m.role = "assistant" THEN AssistantMsgValidate(m)
    ELSE ToolCallResultValidate(m)

\* Sequences over S of length at most n.
SeqUpTo(S, n) == UNION {[1..k -> S] : k \in 0..n}

Contents == {"", "Hello"}
CallIDs == {"", "call_1"}
ToolNames == {"", "get_weather"}

PlainCalls == {ToolCall(i, n, <<>>) : i \in CallIDs, n \in ToolNames}

MessageInputs ==
    {SystemMsg(c) : c \in Contents} \cup {UserMsg(c) : c \in Contents}
    \cup {AssistantMsg(c, tcs) : c \in Contents, tcs \in SeqUpTo(PlainCalls, MaxCalls)}
    \cup {ToolCallResult(i, o, e) : i \in CallIDs, o \in Contents, e \in BOOLEAN}

\* -------------------------------------------------- library: StreamOptions
\* llm.ToolDefinition; Parameters is <<>> for a nil map, <<t>> for a schema
\* whose "type" is t.
ToolDefinition(name, params) == [Name |-> name, Parameters |-> params]

\* llm.ToolChoice: nil, or one of the four variants.
NoToolChoice == [k |-> "nil"]
ToolChoiceAuto == [k |-> "auto"]
ToolChoiceRequired == [k |-> "required"]
ToolChoiceNone == [k |-> "none"]
ToolChoiceTool(name) == [k |-> "tool", Name |-> name]

StreamOptions(model, messages, tools, choice, effort) ==
    [Model |-> model, Messages |-> messages, Tools |-> tools, ToolChoice |-> choice,
     ReasoningEffort |-> effort]

Quote(str) == "\"" \o str \o "\""

\* for i, msg := range o.Messages: the first invalid message decides.
MessagesError(msgs) ==
    LET bad == {i \in DOMAIN msgs : MessageValidate(msgs[i]) # NilError}
    IN  IF bad = {} THEN NilError
        ELSE LET i == CHOOSE i \in bad : \A j \in bad : i <= j
             IN  "messages[" \o ToString(i - 1) \o "]: " \o MessageValidate(msgs[i])

\* Mutant: a named tool choice is accepted without looking it up.
StreamOptionsValidateNoLookup(o) ==
    IF MessagesError(o.Messages) # NilError THEN MessagesError(o.Messages)
    ELSE IF o.ToolChoice.k # "nil" /\ Len(o.Tools) = 0
    THEN "ToolChoice set but no Tools provided"
    ELSE IF o.ToolChoice.k = "tool" /\ o.ToolChoice.Name = ""
    THEN "ToolChoiceTool.Name is required"
    ELSE NilError

\* func (o StreamOptions) Validate() error
StreamOptionsValidate(o) ==
    IF MessagesError(o.Messages) # NilError THEN MessagesError(o.Messages)
    ELSE IF o.ToolChoice.k # "nil" /\ Len(o.Tools) = 0
    THEN "ToolChoice set but no Tools provided"
    ELSE IF o.ToolChoice.k = "tool"
    THEN IF o.ToolChoice.Name = "" THEN "ToolChoiceTool.Name is required"
         ELSE IF \E i \in DOMAIN o.Tools : o.Tools[i].Name = o.ToolChoice.Name
         THEN NilError
         ELSE "ToolChoiceTool references unknown tool " \o Quote(o.ToolChoice.Name)
    ELSE NilError

\* The values ReasoningEffort.Valid() accepts.
ReasoningEfforts == {"", "none", "minimal", "low", "medium", "high", "xhigh"}

ToolDefs ==
    { ToolDefinition("get_weather", <<"object">>),
      ToolDefinition("", <<>>),
      ToolDefinition("bad_tool", <<"string">>) }

ToolChoices ==
    { NoToolChoice, ToolChoiceAuto, ToolChoiceRequired, ToolChoiceNone,
      ToolChoiceTool(""), ToolChoiceTool("get_weather"), ToolChoiceTool("unknown_tool") }

OptionInputs ==
    { StreamOptions(m, msgs, tools, tc, e) :
        m \in {"", "gpt-4"},
        msgs \in SeqUpTo({UserMsg("Hello"), UserMsg("")}, MaxCalls),
        tools \in SeqUpTo(ToolDefs, MaxCalls),
        tc \in ToolChoices,
        e \in {"", "low", "invalid_value"} }

\* ------------------------------------------------------- library: the calls
\* No stream exists while the library operations below are exercised.
NoStream ==
    /\ provider = "openai"
    /\ oauth = FALSE
    /\ ctxErr = ""
    /\ ctxAt = -1
    /\ pc = "none"
    /\ nread = 0
    /\ frame = NoFrame
    /\ activeTools = <<>>
    /\ usage = <<>>
    /\ doneSent = FALSE
    /\ toolCalls = <<>>
    /\ toolCallID = 0
    /\ outbox = <<>>
    /\ events = <<>>
    /\ closed = 0
    /\ sent = <<>>
    /\ received = <<>>
    /\ wcalls = <<>>
    /\ wusage = NoWireUsage

streamVars == <<provider, oauth, ctxErr, ctxAt, pc, nread, frame, activeTools, usage, doneSent,
                toolCalls, toolCallID, outbox, events, closed, sent, received, wcalls, wusage>>

Returns(op, ret) ==
    /\ callOp = op
    /\ callRet = NotCalled
    /\ callRet' = <<ret>>
    /\ UNCHANGED <<instVars, delegated, callOp, callArg, streamVars>>

CallMessageValidate == Returns("Message.Validate", MessageValidate(callArg))

CallStreamOptionsValidate == Returns("StreamOptions.Validate", StreamOptionsValidate(callArg))

\* ------------------------------------------------------- library: Go values
\* A value held in a map[string]any.  A number is n, or 2^53 + n when big is
\* set: 2^53 is where float64 stops representing every integer.
GoValue(t, big, n, str, m) == [t |-> t, big |-> big, n |-> n, s |-> str, m |-> m]
GoInt(n) == GoValue("int", FALSE, n, "", <<>>)
GoBigInt(n) == GoValue("int", TRUE, n, "", <<>>)
GoFloat(big, n) == GoValue("float64", big, n, "", <<>>)
GoString(str) == GoValue("string", FALSE, 0, str, <<>>)
GoMap(m) == GoValue("map", FALSE, 0, "", m)

\* -------------------------------------------------- library: tool dispatch
\* A compiled schema of a parameter struct: the required properties and, per
\* property, its type and (for integers) its range.
IntProp(min, max) == [type |-> "integer", min |-> min, max |-> max]
Schema(required, props) == [required |-> required, props |-> props]

\* *ToolSpec[T]: schema is <<>> when compilation failed, <<sch>> otherwise;
\* fields are the fields of T with their types.
ToolSpec(name, schema, fields) == [name |-> name, schema |-> schema, fields |-> fields]

\* errors of tool dispatch: what failed and for which tool.
ToolError(op, name) == [op |-> op, name |-> name]

\* The object a map[string]any holds: a nil map validates and marshals as
\* the empty object.
ObjectOf(args) == IF args = <<>> THEN <<>> ELSE args[1]

\* s.schema.Validate(raw.Arguments)
SchemaValidate(sch, args) ==
    LET obj == ObjectOf(args)
    IN  /\ \A k \in sch.required : k \in DOMAIN obj
        /\ \A k \in DOMAIN obj \cap DOMAIN sch.props :
              /\ obj[k].t = "int" /\ ~obj[k].big
              /\ sch.props[k].min <= obj[k].n
              /\ obj[k].n <= sch.props[k].max

\* json.Unmarshal(data, &params): every field of T that the object holds
\* must have the field's type; absent fields keep the zero value.
UnmarshalOK(fields, args) ==
    \A k \in DOMAIN ObjectOf(args) \cap DOMAIN fields : ObjectOf(args)[k].t = "int"

UnmarshalParams(fields, args) ==
    [k \in DOMAIN fields |-> IF k \in DOMAIN ObjectOf(args) THEN ObjectOf(args)[k].n ELSE 0]

\* *TypedToolCall[T]
TypedToolCall(id, name, params) == [ID |-> id, Name |-> name, Params |-> params]

\* what parse returns: (call, err); a nil call is <<>>, a nil error <<>>.
Parsed(call, err) == [call |-> call, err |-> err]

\* Mutant: parse decodes without validating.
ToolSpecParseUnvalidated(spec, raw) ==
    IF ~UnmarshalOK(spec.fields, raw.Arguments)
    THEN Parsed(<<>>, <<ToolError("parse", spec.name)>>)
    ELSE Parsed(<<TypedToolCall(raw.ID, raw.Name, UnmarshalParams(spec.fields, raw.Arguments))>>,
                <<>>)

\* func (s *ToolSpec[T]) parse(raw ToolCall) (ParsedToolCall, error)
ToolSpecParse(spec, raw) ==
    IF spec.schema # <<>> /\ ~SchemaValidate(spec.schema[1], raw.Arguments)
    THEN Parsed(<<>>, <<ToolError("validate", spec.name)>>)
    ELSE IF ~UnmarshalOK(spec.fields, raw.Arguments)
    THEN Parsed(<<>>, <<ToolError("parse", spec.name)>>)
    ELSE Parsed(<<TypedToolCall(raw.ID, raw.Name, UnmarshalParams(spec.fields, raw.Arguments))>>,
                <<>>)

\* Mutant: the first tool registered under a name keeps it.
NewToolSetKeepsFirst(tools) ==
    [n \in {tools[i].name : i \in DOMAIN tools} |->
        tools[CHOOSE i \in DOMAIN tools :
                 /\ tools[i].name = n
                 /\ \A j \in DOMAIN tools : tools[j].name = n => i <= j]]

\* NewToolSet: index[def.Name] = tool, a later tool replacing an earlier one
\* of the same name.
NewToolSet(tools) ==
    [n \in {tools[i].name : i \in DOMAIN tools} |->
        tools[CHOOSE i \in DOMAIN tools :
                 /\ tools[i].name = n
                 /\ \A j \in DOMAIN tools : tools[j].name = n => j <= i]]

\* Mutant: a call to an unregistered tool is skipped without an error.
ParseOneSkipsUnknown(index, call) ==
    IF call.Name \notin DOMAIN index THEN Parsed(<<>>, <<>>)
    ELSE ToolSpecParse(index[call.Name], call)

\* One turn of the loop in Parse: the call's contribution to result and errs.
ParseOne(index, call) ==
    IF call.Name \notin DOMAIN index
    THEN Parsed(<<>>, <<ToolError("unknown tool", call.Name)>>)
    ELSE ToolSpecParse(index[call.Name], call)

RECURSIVE ToolSetParseFailFast(_, _)
\* Mutant: the loop stops at the first call that fails.
ToolSetParseFailFast(index, calls) ==
    IF calls = <<>> THEN [result |-> <<>>, errs |-> <<>>]
    ELSE LET one  == ParseOne(index, Head(calls))
         IN  IF one.err # <<>> THEN [result |-> <<>>, errs |-> one.err]
             ELSE LET rest == ToolSetParseFailFast(index, Tail(calls))
                  IN  [result |-> one.call \o rest.result, errs |-> rest.errs]

RECURSIVE ToolSetParseReversed(_, _)
\* Mutant: a parsed call is put before the results so far.
ToolSetParseReversed(index, calls) ==
    IF calls = <<>> THEN [result |-> <<>>, errs |-> <<>>]
    ELSE LET one  == ParseOne(index, Head(calls))
             rest == ToolSetParseReversed(index, Tail(calls))
         IN  [result |-> rest.result \o one.call, errs |-> one.err \o rest.errs]

RECURSIVE ToolSetParse(_, _)
\* func (ts *ToolSet) Parse(calls []ToolCall) ([]ParsedToolCall, error):
\* errs holds the errors errors.Join joins (<<>>: a nil error).
ToolSetParse(index, calls) ==
    IF calls = <<>> THEN [result |-> <<>>, errs |-> <<>>]
    ELSE LET one  == ParseOne(index, Head(calls))
             rest == ToolSetParse(index, Tail(calls))
         IN  [result |-> one.call \o rest.result, errs |-> one.err \o rest.errs]

\* type Params struct { Age int `json:"age" jsonschema:"required,minimum=0,maximum=120"` }
AgeFields == [age |-> "int"]
AgeSchema == Schema({"age"}, [age |-> IntProp(0, 120)])

ToolSpecs ==
    { ToolSpec("test", <<AgeSchema>>, AgeFields),
      ToolSpec("test", <<>>, AgeFields) }

ArgInputs ==
    { <<>>, <<[age |-> GoInt(-1)]>>, <<[age |-> GoInt(25)]>>, <<[age |-> GoInt(150)]>>,
      <<[age |-> GoString("old")]>> }

RawCalls ==
    {ToolCall(i, n, a) : i \in {"call_1", "call_2"}, n \in {"test", "unknown"}, a \in ArgInputs}

ParseInputs ==
    {[spec |-> sp, raw |-> c] : sp \in ToolSpecs, c \in RawCalls}

ToolSetInputs ==
    {[tools |-> <<sp>>, calls |-> cs] : sp \in ToolSpecs, cs \in SeqUpTo(RawCalls, MaxCalls)}

\* NewToolSpec[T](name, description): the spec with the definition it was
\* built with.
DescribedSpec(spec, description) ==
    [name |-> spec.name, schema |-> spec.schema, fields |-> spec.fields,
     definition |-> [Name |-> spec.name, Description |-> description,
                     Parameters |-> <<"object">>]]

\* func (ts *ToolSet) Definitions() []ToolDefinition, over ts.tools
ToolSetDefinitions(tools) == [i \in DOMAIN tools |-> tools[i].definition]

\* Sets of two tools, with equal names or not, and a batch of one call.
RegisteredSpecs ==
    {DescribedSpec(sp, d) : sp \in ToolSpecs \cup {ToolSpec("other", <<AgeSchema>>, AgeFields)},
                            d \in {"first", "second"}}

NewToolSetInputs ==
    {[tools |-> <<a, b>>, calls |-> <<c>>] :
        a \in {sp \in RegisteredSpecs : sp.definition.Description = "first"},
        b \in {sp \in RegisteredSpecs : sp.definition.Description = "second"},
        c \in {rc \in RawCalls : rc.ID = "call_1"}}

\* ts := NewToolSet(tools...); ts.Definitions(); ts.Parse(calls)
CallNewToolSet ==
    Returns("NewToolSet", [definitions |-> ToolSetDefinitions(callArg.tools),
                           parsed |-> ToolSetParse(NewToolSet(callArg.tools), callArg.calls)])

CallToolSpecParse ==
    Returns("ToolSpec.parse", ToolSpecParse(callArg.spec, callArg.raw))

CallToolSetParse ==
    Returns("ToolSet.Parse", ToolSetParse(NewToolSet(callArg.tools), callArg.calls))

\* The library operations and the arguments they are exercised with.
\* ------------------------------------------------------------- library: JSON
\* A JSON text, by what it denotes.  A number is the integer its literal
\* spells (n, or 2^53 + n when big); an object maps its keys to JSON texts.
JSONValue(t, big, n, str, o) == [t |-> t, big |-> big, n |-> n, s |-> str, o |-> o]
JSONNull == JSONValue("null", FALSE, 0, "", <<>>)
JSONNumber(big, n) == JSONValue("number", big, n, "", <<>>)
JSONString(str) == JSONValue("string", FALSE, 0, str, <<>>)
JSONBool(b) == JSONValue(IF b THEN "true" ELSE "false", FALSE, 0, "", <<>>)
JSONObject(o) == JSONValue("object", FALSE, 0, "", o)
JSONArray(a) == JSONValue("array", FALSE, 0, "", a)

\* The float64 nearest to 2^53 + n: above 2^53 only even integers are
\* representable and a tie goes to the even mantissa.
NearestFloat64(n) == IF n % 2 = 0 THEN n ELSE IF n % 4 = 1 THEN n - 1 ELSE n + 1

\* json.Marshal of a value held in a map[string]any.
RECURSIVE MarshalValue(_)
MarshalValue(v) ==
    IF v.t \in {"int", "float64"} THEN JSONNumber(v.big, v.n)
    ELSE IF v.t = "string" THEN JSONString(v.s)
    ELSE JSONObject([k \in DOMAIN v.m |-> MarshalValue(v.m[k])])

\* json.Unmarshal into an any: a number becomes a float64, an object a
\* map[string]any.
RECURSIVE UnmarshalValue(_)
UnmarshalValue(j) ==
    IF j.t = "number" THEN GoFloat(j.big, IF j.big THEN NearestFloat64(j.n) ELSE j.n)
    ELSE IF j.t = "string" THEN GoString(j.s)
    ELSE GoMap([k \in DOMAIN j.o |-> UnmarshalValue(j.o[k])])

\* json.Marshal of a map[string]any: a nil map is null.
MarshalArguments(args) ==
    IF args = <<>> THEN JSONNull
    ELSE JSONObject([k \in DOMAIN args[1] |-> MarshalValue(args[1][k])])

\* json.Unmarshal into a nil map[string]any: null leaves it nil.
UnmarshalArguments(j) ==
    IF j.t = "null" THEN <<>>
    ELSE << [k \in DOMAIN j.o |-> UnmarshalValue(j.o[k])] >>

\* func (tc ToolCall) MarshalJSON
ToolCallMarshalJSON(tc) ==
    JSONObject([id |-> JSONString(tc.ID), name |-> JSONString(tc.Name),
                arguments |-> MarshalArguments(tc.Arguments)])

\* func (tc *ToolCall) UnmarshalJSON
ToolCallUnmarshalJSON(j) ==
    ToolCall(j.o.id.s, j.o.name.s, UnmarshalArguments(j.o.arguments))

\* The members of a struct that its omitempty tags keep.
OmitEmpty(o, omitted) == [k \in DOMAIN o \ omitted |-> o[k]]

\* MarshalJSON of the four message types.
MessageMarshalJSON(m) ==
    IF m.role \in {"system", "user"}
    THEN JSONObject([role |-> JSONString(m.role), content |-> JSONString(m.Content)])
    ELSE IF m.role = "assistant"
    THEN JSONObject(OmitEmpty(
            [role |-> JSONString(m.role), content |-> JSONString(m.Content),
             tool_calls |-> JSONArray([i \in DOMAIN m.ToolCalls |->
                                          ToolCallMarshalJSON(m.ToolCalls[i])])],
            (IF m.Content = "" THEN {"content"} ELSE {})
               \cup (IF Len(m.ToolCalls) = 0 THEN {"tool_calls"} ELSE {})))
    ELSE JSONObject(OmitEmpty(
            [role |-> JSONString(m.role), tool_call_id |-> JSONString(m.ToolCallID),
             content |-> JSONString(m.Output), is_error |-> JSONBool(m.IsError)],
            IF m.IsError THEN {} ELSE {"is_error"}))

\* json.Marshal of Messages: the array of the elements' encodings.
MessagesMarshalJSON(msgs) == JSONArray([i \in DOMAIN msgs |-> MessageMarshalJSON(msgs[i])])

\* A member of a decoded struct: the zero value when the key is absent.
Member(o, key, zero) == IF key \in DOMAIN o THEN o[key] ELSE zero

\* One turn of the loop of Messages.UnmarshalJSON: the message of an element
\* with a known role.
MessageUnmarshal(j) ==
    LET role == Member(j.o, "role", JSONString("")).s
        content == Member(j.o, "content", JSONString("")).s
    IN  IF role = "system" THEN SystemMsg(content)
        ELSE IF role = "user" THEN UserMsg(content)
        ELSE IF role = "assistant"
        THEN LET tcs == Member(j.o, "tool_calls", JSONArray(<<>>)).o
             IN  AssistantMsg(content, [i \in DOMAIN tcs |-> ToolCallUnmarshalJSON(tcs[i])])
        ELSE ToolCallResult(Member(j.o, "tool_call_id", JSONString("")).s, content,
                            Member(j.o, "is_error", JSONBool(FALSE)).t = "true")

Roles == {"system", "user", "assistant", "tool"}

\* The role member of an element, "" when it has none.
RoleOf(j) == Member(j.o, "role", JSONString("")).s

\* func (m *Messages) UnmarshalJSON: the destination is reset and grows by one
\* message per element; the first element with an unknown role returns the
\* error and leaves in the destination what was appended before it.
MessagesUnmarshalJSON(j) ==
    LET bad == {i \in DOMAIN j.o : RoleOf(j.o[i]) \notin Roles}
    IN  IF bad # {}
        THEN LET first == CHOOSE i \in bad : \A k \in bad : i <= k
             IN  [msgs |-> [i \in 1..(first - 1) |-> MessageUnmarshal(j.o[i])],
                  err |-> "message[" \o ToString(first - 1) \o "]: unknown role "
                             \o Quote(RoleOf(j.o[first]))]
        ELSE [msgs |-> [i \in DOMAIN j.o |-> MessageUnmarshal(j.o[i])], err |-> NilError]

\* Elements of an encoded sequence: two well-formed ones, one with a role
\* that is not known and one without a role.
WireElements ==
    { MessageMarshalJSON(UserMsg("Hello")),
      MessageMarshalJSON(ToolCallResult("call_1", "Hello", TRUE)),
      JSONObject([role |-> JSONString("unknown"), content |-> JSONString("test")]),
      JSONObject([content |-> JSONString("no role")]) }

WireInputs == {JSONArray(a) : a \in SeqUpTo(WireElements, MaxCalls)}

\* json.Unmarshal(data, &msgs) with a fresh msgs
CallMessagesUnmarshal == Returns("Messages.UnmarshalJSON", MessagesUnmarshalJSON(callArg))

\* Arguments as tool calls carry them: nil, empty, strings, numbers and a
\* nested object.
ArgumentInputs ==
    { <<>>, << <<>> >>,
      << [location |-> GoString("Paris"), unit |-> GoString("celsius")] >>,
      << [count |-> GoInt(25)] >>,
      << [count |-> GoFloat(FALSE, 25)] >>,
      << [id |-> GoBigInt(1)] >>,
      << [id |-> GoBigInt(2)] >>,
      << [filter |-> GoMap([city |-> GoString("Paris"), limit |-> GoInt(3)])] >> }

ArgumentCalls == {ToolCall("call_1", "get_weather", a) : a \in ArgumentInputs}

RoundTripMessages ==
    {SystemMsg(c) : c \in Contents} \cup {UserMsg(c) : c \in Contents}
    \cup {AssistantMsg(c, tcs) : c \in Contents, tcs \in SeqUpTo(ArgumentCalls, MaxCalls)}
    \cup {ToolCallResult(i, o, e) : i \in CallIDs, o \in Contents, e \in BOOLEAN}

\* Sequences that contain the message, alone or after another one.
RoundTripInputs ==
    {<<m>> : m \in RoundTripMessages} \cup {<<UserMsg("Hello"), m>> : m \in RoundTripMessages}

\* json.Unmarshal(json.Marshal(msgs), &restored)
CallRoundTrip == Returns("Messages.RoundTrip", MessagesUnmarshalJSON(MessagesMarshalJSON(callArg)))

LibInputs ==
    [op : {"Message.Validate"}, arg : MessageInputs]
    \cup [op : {"StreamOptions.Validate"}, arg : OptionInputs]
    \cup [op : {"ToolSpec.parse"}, arg : ParseInputs]
    \cup [op : {"ToolSet.Parse"}, arg : ToolSetInputs]
    \cup [op : {"Messages.RoundTrip"}, arg : RoundTripInputs]
    \cup [op : {"Messages.UnmarshalJSON"}, arg : WireInputs]
    \cup [op : {"NewToolSet"}, arg : NewToolSetInputs]

LibInit ==
    /\ NoStream
    /\ NoInstances
    /\ delegated = <<>>
    /\ \E c \in LibInputs : callOp = c.op /\ callArg = c.arg
    /\ callRet = NotCalled

LibNext ==
    \/ CallMessageValidate
    \/ CallStreamOptionsValidate
    \/ CallToolSpecParse
    \/ CallToolSetParse
    \/ CallRoundTrip
    \/ CallMessagesUnmarshal
    \/ CallNewToolSet

LibSpec == LibInit /\ [][LibNext]_vars

\* --------------------------------------------------------- stream creation
\* A model reference is held as the segments its "/" characters separate:
\* "openrouter/anthropic/claude" is <<"openrouter", "anthropic", "claude">>.
RECURSIVE JoinSegments(_)
JoinSegments(segs) ==
    IF Len(segs) = 1 THEN segs[1] ELSE segs[1] \o "/" \o JoinSegments(Tail(segs))

\* Mutant: the reference is split at every "/".
SplitEvery(segs) == segs

\* strings.SplitN(ref, "/", 2)
SplitN2(segs) == IF Len(segs) <= 2 THEN segs ELSE <<segs[1], JoinSegments(Tail(segs))>>

ErrNotFound == "not found"
ErrBadRequest == "bad request"

\* A Provider as the registry sees it: its Name(), the ids of its Models()
\* and which instance it is.
ProviderInstance(name, inst, models) == [name |-> name, inst |-> inst, models |-> models]

\* llm.Model as Register builds it.
RegisteredModel(p, id) == [ID |-> p.name \o "/" \o id, Name |-> id, Provider |-> p.name]

\* func NewRegistry
NewRegistry == [providers |-> <<>>, models |-> <<>>]

\* Mutant: a name that is already registered keeps its provider.
RegisterKeepsFirst(reg, p) ==
    [providers |-> reg.providers @@ (p.name :> p),
     models |-> reg.models \o [i \in DOMAIN p.models |-> RegisteredModel(p, p.models[i])]]

\* func (r *Registry) Register
Register(reg, p) ==
    [providers |-> (p.name :> p) @@ reg.providers,
     models |-> reg.models \o [i \in DOMAIN p.models |-> RegisteredModel(p, p.models[i])]]

\* func (r *Registry) Provider; p is <<>> for nil.
RegistryProvider(reg, name) ==
    IF name \notin DOMAIN reg.providers
    THEN [p |-> <<>>, err |-> "provider " \o Quote(name) \o ": " \o ErrNotFound]
    ELSE [p |-> <<reg.providers[name]>>, err |-> NilError]

\* func (r *Registry) ResolveModel
ResolveModel(reg, ref) ==
    LET parts == SplitN2(ref)
    IN  IF Len(parts) # 2
        THEN [provider |-> <<>>, model |-> "",
              err |-> "invalid model reference " \o Quote(JoinSegments(ref))
                         \o ", expected provider/model: " \o ErrBadRequest]
        ELSE LET r == RegistryProvider(reg, parts[1])
             IN  IF r.err # NilError THEN [provider |-> <<>>, model |-> "", err |-> r.err]
                 ELSE [provider |-> r.p, model |-> parts[2], err |-> NilError]

\* A registry with one instance of every adapter registered.
RECURSIVE RegisterAll(_, _)
RegisterAll(reg, ps) ==
    IF ps = <<>> THEN reg ELSE RegisterAll(Register(reg, Head(ps)), Tail(ps))

AdapterRegistry ==
    RegisterAll(NewRegistry,
                [i \in 1..6 |-> ProviderInstance(
                    <<"openai", "openrouter", "anthropic", "bedrock", "ollama", "claudecode">>[i],
                    1, <<>>)])

\* func (r *Registry) ResolveModel, with every adapter registered: the name of
\* the provider ("" for none), the model id and the error.
RegistryResolveModel(ref) ==
    LET r == ResolveModel(AdapterRegistry, ref)
    IN  [provider |-> IF r.err = NilError THEN r.provider[1].name ELSE "",
         model |-> r.model, err |-> r.err]

\* What a stream-creation call returns, and whether it started the adapter
\* goroutine.
Created == [events |-> "chan", err |-> NilError, spawned |-> TRUE]
NotCreated(err) == [events |-> "nil", err |-> err, spawned |-> FALSE]

\* How the initial exchange with the service goes: "ok", the credentials
\* cannot be obtained, the quota check fails, the connection fails, or the
\* service answers with a status other than 200.
Attempts(p, oa) ==
    {"ok", "connect", "status"}
    \cup (IF p \in {"anthropic", "bedrock"} THEN {"credentials"} ELSE {})
    \cup (IF p = "anthropic" /\ oa THEN {"quota"} ELSE {})

\* Mutant: the response status is not looked at.
ProviderCreateStreamAnyStatus(p, oa, opts, attempt) ==
    IF attempt \in {"credentials", "quota", "connect"} THEN NotCreated(p \o " request")
    ELSE Created

\* CreateStream of the adapter p: every failure returns before the channel
\* is made.
ProviderCreateStream(p, oa, opts, attempt) ==
    IF p = "anthropic"
    THEN IF attempt = "credentials" THEN NotCreated("get access token")
         ELSE IF oa /\ attempt = "quota" THEN NotCreated("quota check")
         ELSE IF attempt = "connect" THEN NotCreated("anthropic request")
         ELSE IF attempt = "status" THEN NotCreated("anthropic API error (HTTP 500)")
         ELSE Created
    ELSE IF p = "bedrock"
    THEN IF attempt = "credentials" THEN NotCreated("create client")
         ELSE IF StreamOptionsValidate(opts) # NilError
         THEN NotCreated("invalid options: " \o StreamOptionsValidate(opts))
         ELSE IF attempt \in {"connect", "status"} THEN NotCreated("bedrock request")
         ELSE Created
    ELSE IF p = "claudecode"
    THEN IF attempt \in {"connect", "status"} THEN NotCreated("cc provider") ELSE Created
    ELSE IF attempt = "connect" THEN NotCreated(p \o " request")
         ELSE IF attempt = "status" THEN NotCreated(p \o " API error (HTTP 500)")
         ELSE Created

\* Mutant: the options are handed on as the caller gave them.
RegistryDelegateUnchanged(opts) ==
    IF StreamOptionsValidate(opts) # NilError
    THEN [err |-> "invalid options: " \o StreamOptionsValidate(opts), provider |-> "", opts |-> opts]
    ELSE LET r == RegistryResolveModel(opts.Model)
         IN  [err |-> r.err, provider |-> r.provider, opts |-> opts]

\* Registry.CreateStream up to its last line: the error it returns itself, or
\* the provider it delegates to and the options it hands on.
RegistryDelegate(opts) ==
    IF StreamOptionsValidate(opts) # NilError
    THEN [err |-> "invalid options: " \o StreamOptionsValidate(opts), provider |-> "", opts |-> opts]
    ELSE LET r == RegistryResolveModel(opts.Model)
         IN  IF r.err # NilError THEN [err |-> r.err, provider |-> "", opts |-> opts]
             ELSE [err |-> NilError, provider |-> r.provider,
                   opts |-> [opts EXCEPT !.Model = r.model]]

\* The provider calls Registry.CreateStream makes.
ProviderCalls(opts) ==
    LET d == RegistryDelegate(opts)
    IN  IF d.err # NilError THEN <<>> ELSE <<[provider |-> d.provider, opts |-> d.opts]>>

\* func (r *Registry) CreateStream
RegistryCreateStream(opts, oa, attempt) ==
    LET d == RegistryDelegate(opts)
    IN  IF d.err # NilError THEN NotCreated(d.err)
        ELSE ProviderCreateStream(d.provider, oa, d.opts, attempt)

ModelRefs ==
    { <<"openai", "gpt-4o">>, <<"openrouter", "anthropic", "claude">>, <<"anthropic", "claude">>,
      <<"bedrock", "claude">>, <<"ollama", "llama3">>, <<"claudecode", "sonnet">>,
      <<"gpt-4o">>, <<"">>, <<"missing", "gpt-4o">> }

\* The calls of Registry.CreateStream that are exercised, with the way the
\* initial exchange goes and the kind of credential the anthropic adapter has.
CreateInputs ==
    { [opts |-> StreamOptions(ref, msgs, <<>>, choice, ""), attempt |-> a, oauth |-> oa] :
         ref \in ModelRefs, msgs \in {<<UserMsg("Hello")>>, <<UserMsg("")>>},
         choice \in {NoToolChoice, ToolChoiceAuto},
         a \in Attempts("anthropic", TRUE), oa \in BOOLEAN }

\* The usage snapshot an adapter starts with.
StartUsage(p) == IF p \in {"openai", "openrouter"} THEN <<>> ELSE <<ZeroUsage>>

\* Mutant: the channel is made first and a failure is pushed into it.
CreateStreamReportsByEvent ==
    /\ pc = "create"
    /\ LET r == RegistryCreateStream(callArg.opts, oauth, callArg.attempt)
       IN  /\ callRet' = <<[events |-> "chan", err |-> NilError]>>
           /\ provider' = RegistryResolveModel(callArg.opts.Model).provider
           /\ usage' = StartUsage(provider')
           /\ pc' = IF r.spawned THEN "run" ELSE "ret"
           /\ outbox' = IF r.spawned THEN <<>> ELSE <<Plain(ErrorEv(Err("request", r.err)))>>
           /\ delegated' = ProviderCalls(callArg.opts)
    /\ UNCHANGED <<instVars, callOp, callArg, oauth, ctxErr, ctxAt, nread, frame, activeTools, doneSent,
                   toolCalls, toolCallID, events, closed, sent, received, wcalls, wusage>>

\* The caller calls Registry.CreateStream: on success the adapter goroutine
\* starts on the new channel, otherwise nothing is started.
CreateStream ==
    /\ pc = "create"
    /\ LET r == RegistryCreateStream(callArg.opts, oauth, callArg.attempt)
       IN  /\ callRet' = <<[events |-> r.events, err |-> r.err]>>
           /\ provider' = RegistryResolveModel(callArg.opts.Model).provider
           /\ usage' = StartUsage(provider')
           /\ pc' = IF r.spawned THEN "run" ELSE "none"
           /\ outbox' = <<>>
           /\ delegated' = ProviderCalls(callArg.opts)
    /\ UNCHANGED <<instVars, callOp, callArg, oauth, ctxErr, ctxAt, nread, frame, activeTools, doneSent,
                   toolCalls, toolCallID, events, closed, sent, received, wcalls, wusage>>

\* The state before a stream-creation call returns.
CreateInit ==
    /\ \E c \in CreateInputs :
          /\ callArg = c
          /\ oauth = c.oauth
          /\ c.oauth => RegistryResolveModel(c.opts.Model).provider = "anthropic"
          /\ c.attempt \in Attempts(RegistryResolveModel(c.opts.Model).provider, c.oauth)
    /\ callOp = "Registry.CreateStream"
    /\ callRet = NotCalled
    /\ NoInstances
    /\ delegated = <<>>
    /\ provider = ""
    /\ ctxErr = ""
    /\ ctxAt = -1
    /\ pc = "create"
    /\ nread = 0
    /\ frame = NoFrame
    /\ activeTools = <<>>
    /\ usage = <<>>
    /\ doneSent = FALSE
    /\ toolCalls = <<>>
    /\ toolCallID = 0
    /\ outbox = <<>>
    /\ events = <<>>
    /\ closed = 0
    /\ sent = <<>>
    /\ received = <<>>
    /\ wcalls = <<>>
    /\ wusage = NoWireUsage

CreateNext ==
    \/ CreateStream
    \/ OpenAIStep
    \/ OpenRouterStep
    \/ AnthropicStep
    \/ BedrockStep
    \/ OllamaStep
    \/ ClaudeCodeCheck
    \/ ClaudeCodeRecv
    \/ Send
    \/ Close
    \/ Recv
    \/ Cancel

CreateSpec == CreateInit /\ [][CreateNext]_vars

\* ------------------------------------------------------------ the registry
\* Bound on the number of Register calls.
MaxRegs == 2

ProviderInputs ==
    { ProviderInstance("openai", 1, <<"gpt-4o">>),
      ProviderInstance("openai", 2, <<"gpt-4o", "o3">>),
      ProviderInstance("ollama", 1, <<"llama3.2:1b">>),
      ProviderInstance("anthropic:claude-code", 1, <<"sonnet">>) }

RefInputs ==
    { <<"openai", "gpt-4o">>, <<"ollama", "llama3.2:1b">>, <<"anthropic:claude-code", "sonnet">>,
      <<"openai", "org", "model">>, <<"invalid">>, <<"unknown", "model">>, <<"">> }

RegistryOps == {"NewRegistry", "Registry.Register", "Registry.ResolveModel"}

\* reg.Register(p)
CallRegister ==
    /\ callOp \in RegistryOps
    /\ Len(regs) < MaxRegs
    /\ \E p \in ProviderInputs :
          /\ registry' = Register(registry, p)
          /\ regs' = Append(regs, p)
          /\ callArg' = p
    /\ callOp' = "Registry.Register"
    /\ callRet' = NotCalled
    /\ UNCHANGED <<streamVars, delegated, anthropic, clock, callers, lazy, audit>>

\* reg.ResolveModel(ref)
CallResolveModel ==
    /\ callOp \in RegistryOps
    /\ \E ref \in RefInputs :
          /\ callArg' = ref
          /\ callRet' = <<ResolveModel(registry, ref)>>
    /\ callOp' = "Registry.ResolveModel"
    /\ UNCHANGED <<streamVars, delegated, registry, regs, anthropic, clock, callers, lazy, audit>>

\* The state after NewRegistry().
RegInit ==
    /\ NoStream
    /\ registry = NewRegistry
    /\ regs = <<>>
    /\ delegated = <<>>
    /\ anthropic = <<>>
    /\ clock = 0
    /\ callers = <<>>
    /\ lazy = <<>>
    /\ audit = <<>>
    /\ callOp = "NewRegistry"
    /\ callArg = <<>>
    /\ callRet = NotCalled

RegNext ==
    \/ CallRegister
    \/ CallResolveModel

RegSpec == RegInit /\ [][RegNext]_vars

\* ------------------------------------------- anthropic: the credential
\* Bounds: the goroutines that call one Provider at once, and how far the
\* clock advances (in minutes).
MaxCallers == 2
MaxClock == 1

\* expiry margin of getAccessToken: 5*60*1000 ms
RefreshMargin == 5

\* A token: an OAuth access token starts with "sk-ant-oat", an API key does
\* not; gen tells the tokens of successive refreshes apart.
Token(kind, gen) == [kind |-> kind, gen |-> gen]
NoToken == Token("", 0)

\* llm.OAuthConfig
OAuthConfig(access, refresh, expires) == [Access |-> access, Refresh |-> refresh, Expires |-> expires]

\* anthropic.Provider: config.OAuth is <<>> for nil, mu is 0 when unlocked
\* and otherwise the goroutine that holds it.
AnthropicProvider(apiKey, oa) == [APIKey |-> apiKey, OAuth |-> oa, mu |-> 0, quotaChecked |-> FALSE]

\* func (c *ProviderConfig) GetAccessToken
GetAccessToken(p) ==
    IF p.OAuth # <<>> /\ p.OAuth[1].Access # NoToken THEN p.OAuth[1].Access ELSE p.APIKey

\* strings.HasPrefix(token, "sk-ant-oat")
IsOAuthToken(token) == token.kind = "oat"

\* A goroutine in SendMessage: where it is, its locals oauth and token, the
\* expires_in of the refresh response it decoded, and the error it returns.
Caller(at, oa, token, expiresIn, err) ==
    [pc |-> at, oauth |-> oa, token |-> token, expiresIn |-> expiresIn, err |-> err]

\* The observer: refresh requests issued and how each ended, quota checks
\* issued, the fields accessed without the lock, and the credential the
\* provider started with.
Audit(refreshes, outcomes, quotaChecks, unlocked, initial) ==
    [refreshes |-> refreshes, outcomes |-> outcomes, quotaChecks |-> quotaChecks,
     unlocked |-> unlocked, initial |-> initial]

\* The goroutine t accesses the fields fs: noted when it does not hold mu.
Accessed(t, fs) ==
    [audit EXCEPT !.unlocked = IF anthropic.mu = t THEN @ ELSE @ \cup fs]

AnthropicOps == {"anthropic.SendMessage"}

credVars == <<streamVars, delegated, registry, regs, lazy, callOp, callArg, callRet>>

\* oauth := p.isOAuth().  A read that races with the store of a refreshed
\* token may see any value.
IsOAuth(t) ==
    /\ callOp \in AnthropicOps
    /\ callers[t].pc = "start"
    /\ \E oa \in (IF \E u \in DOMAIN callers : callers[u].pc = "store" THEN BOOLEAN
                  ELSE {IsOAuthToken(GetAccessToken(anthropic))}) :
          callers' = [callers EXCEPT ![t].oauth = oa, ![t].pc = "lock"]
    /\ audit' = Accessed(t, {"Access"})
    /\ UNCHANGED <<credVars, anthropic, clock>>

\* Mutant: getAccessToken does not wait for the lock.
GetAccessTokenUnguarded(t) ==
    /\ callOp \in AnthropicOps
    /\ callers[t].pc = "lock"
    /\ anthropic' = [anthropic EXCEPT !.mu = t]
    /\ IF anthropic.OAuth = <<>>
       THEN /\ callers' = [callers EXCEPT ![t].token = anthropic.APIKey, ![t].pc = "unlock"]
            /\ audit' = audit
       ELSE IF clock < anthropic.OAuth[1].Expires - RefreshMargin
       THEN /\ callers' = [callers EXCEPT ![t].token = anthropic.OAuth[1].Access,
                                          ![t].pc = "unlock"]
            /\ audit' = audit
       ELSE IF anthropic.OAuth[1].Refresh = ""
       THEN /\ callers' = [callers EXCEPT ![t].err = "token refresh: no refresh token available",
                                          ![t].pc = "unlock"]
            /\ audit' = audit
       ELSE /\ callers' = [callers EXCEPT ![t].pc = "refreshing"]
            /\ audit' = [audit EXCEPT !.refreshes = @ + 1]
    /\ UNCHANGED <<credVars, clock>>

\* getAccessToken up to the refresh request: p.mu.Lock(), the expiry check,
\* and either the token, the error of a missing refresh token, or the request.
GetAccessTokenLocked(t) ==
    /\ callOp \in AnthropicOps
    /\ callers[t].pc = "lock"
    /\ anthropic.mu = 0
    /\ anthropic' = [anthropic EXCEPT !.mu = t]
    /\ IF anthropic.OAuth = <<>>
       THEN /\ callers' = [callers EXCEPT ![t].token = anthropic.APIKey, ![t].pc = "unlock"]
            /\ audit' = audit
       ELSE IF clock < anthropic.OAuth[1].Expires - RefreshMargin
       THEN /\ callers' = [callers EXCEPT ![t].token = anthropic.OAuth[1].Access,
                                          ![t].pc = "unlock"]
            /\ audit' = audit
       ELSE IF anthropic.OAuth[1].Refresh = ""
       THEN /\ callers' = [callers EXCEPT ![t].err = "token refresh: no refresh token available",
                                          ![t].pc = "unlock"]
            /\ audit' = audit
       ELSE /\ callers' = [callers EXCEPT ![t].pc = "refreshing"]
            /\ audit' = [audit EXCEPT !.refreshes = @ + 1]
    /\ UNCHANGED <<credVars, clock>>

\* expires_in of a refresh response, in minutes.
ExpiresIns == {4, 60}

\* Mutant: a failed refresh clears the stored credential.
RefreshResponseClears(t) ==
    /\ callOp \in AnthropicOps
    /\ callers[t].pc = "refreshing"
    /\ \/ /\ callers' = [callers EXCEPT ![t].err = "token refresh: request failed",
                                        ![t].pc = "unlock"]
          /\ audit' = [audit EXCEPT !.outcomes = @ \cup {"failed"}]
          /\ anthropic' = [anthropic EXCEPT !.OAuth = <<OAuthConfig(NoToken, "", 0)>>]
       \/ \E e \in ExpiresIns :
             /\ callers' = [callers EXCEPT ![t].expiresIn = e, ![t].pc = "store"]
             /\ audit' = [audit EXCEPT !.outcomes =
                             @ \cup {IF e > RefreshMargin + MaxClock THEN "fresh" ELSE "due"}]
             /\ anthropic' = anthropic
    /\ UNCHANGED <<credVars, clock>>

\* refreshToken from p.client.Do on: the request fails, or its response is
\* decoded.
RefreshResponse(t) ==
    /\ callOp \in AnthropicOps
    /\ callers[t].pc = "refreshing"
    /\ \/ /\ callers' = [callers EXCEPT ![t].err = "token refresh: request failed",
                                        ![t].pc = "unlock"]
          /\ audit' = [audit EXCEPT !.outcomes = @ \cup {"failed"}]
       \/ \E e \in ExpiresIns :
             /\ callers' = [callers EXCEPT ![t].expiresIn = e, ![t].pc = "store"]
             /\ audit' = [audit EXCEPT !.outcomes =
                             @ \cup {IF e > RefreshMargin + MaxClock THEN "fresh" ELSE "due"}]
    /\ UNCHANGED <<credVars, anthropic, clock>>

\* refreshToken's "Update stored tokens", and the return of the new token.
StoreTokens(t) ==
    /\ callOp \in AnthropicOps
    /\ callers[t].pc = "store"
    /\ LET new == OAuthConfig(Token("oat", anthropic.OAuth[1].Access.gen + 1), "refresh",
                              clock + callers[t].expiresIn)
       IN  /\ anthropic' = [anthropic EXCEPT !.OAuth = <<new>>]
           /\ callers' = [callers EXCEPT ![t].token = new.Access, ![t].pc = "unlock"]
    /\ audit' = Accessed(t, {"Access", "Refresh", "Expires"})
    /\ UNCHANGED <<credVars, clock>>

\* defer p.mu.Unlock(), and SendMessage's return on an error.
Unlock(t) ==
    /\ callOp \in AnthropicOps
    /\ callers[t].pc = "unlock"
    /\ anthropic' = [anthropic EXCEPT !.mu = 0]
    /\ callers' = [callers EXCEPT ![t].pc = IF callers[t].err # "" THEN "done" ELSE "quota"]
    /\ UNCHANGED <<credVars, clock, audit>>

\* if oauth && !p.quotaChecked
QuotaTest(t) ==
    /\ callOp \in AnthropicOps
    /\ callers[t].pc = "quota"
    /\ callers' = [callers EXCEPT ![t].pc = IF callers[t].oauth /\ ~anthropic.quotaChecked
                                            THEN "checkQuota" ELSE "done"]
    /\ audit' = IF callers[t].oauth THEN Accessed(t, {"quotaChecked"}) ELSE audit
    /\ UNCHANGED <<credVars, anthropic, clock>>

\* p.quotaChecked = true; p.checkQuota(ctx, token)
CheckQuota(t) ==
    /\ callOp \in AnthropicOps
    /\ callers[t].pc = "checkQuota"
    /\ anthropic' = [anthropic EXCEPT !.quotaChecked = TRUE]
    /\ \E err \in {"", "quota check: request failed"} :
          callers' = [callers EXCEPT ![t].err = err, ![t].pc = "done"]
    /\ audit' = [Accessed(t, {"quotaChecked"}) EXCEPT !.quotaChecks = @ + 1]
    /\ UNCHANGED <<credVars, clock>>

\* time passes
Tick ==
    /\ callOp \in AnthropicOps
    /\ clock < MaxClock
    /\ clock' = clock + 1
    /\ UNCHANGED <<credVars, anthropic, callers, audit>>

\* The credentials a provider is constructed with: an API key, or an OAuth
\* credential that is due or not, with or without a refresh token.
CredentialInputs ==
    {<<>>} \cup { <<OAuthConfig(Token("oat", 0), r, e)>> :
                     r \in {"", "refresh"}, e \in {RefreshMargin, RefreshMargin + 1, 60} }

\* MaxCallers goroutines are about to call SendMessage on one Provider.
CredInit ==
    /\ NoStream
    /\ delegated = <<>>
    /\ registry = <<>>
    /\ regs = <<>>
    /\ lazy = <<>>
    /\ callOp = "anthropic.SendMessage"
    /\ callArg = <<>>
    /\ callRet = NotCalled
    /\ \E oa \in CredentialInputs :
          /\ anthropic = AnthropicProvider(Token("api", 0), oa)
          /\ audit = Audit(0, {}, 0, {}, oa)
    /\ clock = 0
    /\ callers = [t \in 1..MaxCallers |-> Caller("start", FALSE, NoToken, 0, "")]

CredNext ==
    \/ \E t \in 1..MaxCallers : IsOAuth(t)
    \/ \E t \in 1..MaxCallers : GetAccessTokenLocked(t)
    \/ \E t \in 1..MaxCallers : RefreshResponse(t)
    \/ \E t \in 1..MaxCallers : StoreTokens(t)
    \/ \E t \in 1..MaxCallers : Unlock(t)
    \/ \E t \in 1..MaxCallers : QuotaTest(t)
    \/ \E t \in 1..MaxCallers : CheckQuota(t)
    \/ Tick

CredSpec == CredInit /\ [][CredNext]_vars

\* --------------------------------------------------- guarded construction
\* modeldb: dbOnce is "new", "running" (its function is being run, callers
\* wait) or "done"; db is the instance loaded (0: the zero Database); loads
\* counts the runs of the function.  bedrock: client is <<>> for nil,
\* clientErr the error New met, builds the constructions New attempted.
Lazy(once, db, dbErr, loads, client, clientErr, builds) ==
    [once |-> once, db |-> db, dbErr |-> dbErr, loads |-> loads,
     client |-> client, clientErr |-> clientErr, builds |-> builds]

\* A goroutine that calls modeldb.Load or bedrock's CreateStream: where it
\* is and what its calls have returned so far.
LazyCaller(op, at, ret) == [op |-> op, pc |-> at, ret |-> ret]

LazyOps == {"modeldb.Load"}

lazyVars == <<streamVars, delegated, registry, regs, anthropic, clock, audit,
              callOp, callArg, callRet>>

\* Mutant: the function runs whenever it has not finished yet.
OnceDoUnguarded(t) ==
    /\ callOp \in LazyOps
    /\ callers[t].op = "Load" /\ callers[t].pc = "call"
    /\ IF lazy.once = "done"
       THEN callers' = [callers EXCEPT ![t].pc = "return"] /\ lazy' = lazy
       ELSE callers' = [callers EXCEPT ![t].pc = "load"] /\ lazy' = [lazy EXCEPT !.once = "running"]
    /\ UNCHANGED lazyVars

\* dbOnce.Do: the first caller runs the function, callers that arrive while
\* it runs wait for it, later callers return at once.
OnceDo(t) ==
    /\ callOp \in LazyOps
    /\ callers[t].op = "Load" /\ callers[t].pc = "call"
    /\ lazy.once # "running"
    /\ IF lazy.once = "done"
       THEN callers' = [callers EXCEPT ![t].pc = "return"] /\ lazy' = lazy
       ELSE callers' = [callers EXCEPT ![t].pc = "load"] /\ lazy' = [lazy EXCEPT !.once = "running"]
    /\ UNCHANGED lazyVars

LoadErrors == {"read api.json", "unmarshal api.json"}

\* Mutant: a failed load is run again by the next caller.
LoadFileRetried(t) ==
    /\ callOp \in LazyOps
    /\ callers[t].pc = "load"
    /\ \/ lazy' = [lazy EXCEPT !.db = lazy.loads + 1, !.dbErr = NilError,
                               !.loads = @ + 1, !.once = "done"]
       \/ \E e \in LoadErrors :
             lazy' = [lazy EXCEPT !.dbErr = e, !.loads = @ + 1, !.once = "new"]
    /\ callers' = [callers EXCEPT ![t].pc = "return"]
    /\ UNCHANGED lazyVars

\* The function given to dbOnce.Do: read and parse the file, keep the result
\* or the error.
LoadFile(t) ==
    /\ callOp \in LazyOps
    /\ callers[t].pc = "load"
    /\ \/ lazy' = [lazy EXCEPT !.db = lazy.loads + 1, !.dbErr = NilError,
                               !.loads = @ + 1, !.once = "done"]
       \/ \E e \in LoadErrors :
             lazy' = [lazy EXCEPT !.dbErr = e, !.loads = @ + 1, !.once = "done"]
    /\ callers' = [callers EXCEPT ![t].pc = "return"]
    /\ UNCHANGED lazyVars

\* return db, dbErr
LoadReturn(t) ==
    /\ callOp \in LazyOps
    /\ callers[t].op = "Load" /\ callers[t].pc = "return"
    /\ callers' = [callers EXCEPT ![t].pc = "done",
                                  ![t].ret = Append(@, [db |-> lazy.db, err |-> lazy.dbErr])]
    /\ UNCHANGED <<lazyVars, lazy>>

\* bedrock's CreateStream up to the check of the deferred construction error.
ClientCheck(t) ==
    /\ callOp \in LazyOps
    /\ callers[t].op = "CreateStream" /\ callers[t].pc = "call"
    /\ callers' = [callers EXCEPT ![t].pc = "done",
                                  ![t].ret = Append(@, [db |-> IF lazy.clientErr # NilError THEN 0
                                                               ELSE lazy.client[1],
                                                        err |-> lazy.clientErr])]
    /\ UNCHANGED <<lazyVars, lazy>>

\* A caller that has returned calls again.
CallAgain(t) ==
    /\ callOp \in LazyOps
    /\ callers[t].pc = "done"
    /\ Len(callers[t].ret) < MaxCalls
    /\ callers' = [callers EXCEPT ![t].pc = "call"]
    /\ UNCHANGED <<lazyVars, lazy>>

\* bedrock.New has run, with or without a construction error; MaxCallers
\* goroutines are about to call modeldb.Load or CreateStream.
LazyInit ==
    /\ NoStream
    /\ delegated = <<>>
    /\ registry = <<>>
    /\ regs = <<>>
    /\ anthropic = <<>>
    /\ clock = 0
    /\ audit = <<>>
    /\ callOp = "modeldb.Load"
    /\ callArg = <<>>
    /\ callRet = NotCalled
    /\ \E e \in {NilError, "load AWS config"} :
          lazy = Lazy("new", 0, NilError, 0, IF e = NilError THEN <<1>> ELSE <<>>, e, 1)
    /\ callers \in [1..MaxCallers -> {LazyCaller(op, "call", <<>>) : op \in {"Load", "CreateStream"}}]

LazyNext ==
    \/ \E t \in 1..MaxCallers : OnceDo(t)
    \/ \E t \in 1..MaxCallers : LoadFile(t)
    \/ \E t \in 1..MaxCallers : LoadReturn(t)
    \/ \E t \in 1..MaxCallers : ClientCheck(t)
    \/ \E t \in 1..MaxCallers : CallAgain(t)

LazySpec == LazyInit /\ [][LazyNext]_vars

\* ----------------------------------------------------- a long response
\* Bound: the lines of a response long enough to fill the channel.
LongFrames == 66

\* The n-th line of the long response: two content fragments in turn.
LongLine(n) ==
    Chunk(<<>>, TRUE, IF n % 2 = 1 THEN "Hello" ELSE " world", "", <<>>, "", "")

\* One iteration of openai's loop on the long response, which ends with
\* data: [DONE].
LongStep ==
    /\ provider = "openai" /\ pc = "run" /\ outbox = <<>>
    /\ \E r \in (IF nread < LongFrames THEN {LongLine(nread + 1)} ELSE {[k |-> "[DONE]"]}) :
       \E order \in Orders(Indexes) :
          Iterate(r, OpenAIParseStream(r, ctxErr, activeTools, usage, order))
    /\ UNCHANGED <<instVars, delegated, callOp, callArg, callRet, provider, oauth, ctxErr, ctxAt,
                   doneSent, toolCalls, toolCallID, events, closed, sent, received>>

\* The state right after openai's CreateStream has returned the channel.
ChanInit == Init /\ provider = "openai"

ChanNext ==
    \/ LongStep
    \/ Send
    \/ Close
    \/ Recv

ChanSpec == ChanInit /\ [][ChanNext]_vars

\* The long response with a caller that may cancel and a consumer that may
\* stop receiving: the adapter goroutine is scheduled whenever it can run, the
\* consumer and the caller are under no obligation.
ChanFairNext ==
    \/ LongStep
    \/ Send
    \/ Close
    \/ Recv
    \/ Cancel

ChanFairSpec ==
    /\ ChanInit
    /\ [][ChanFairNext]_vars
    /\ WF_vars(LongStep)
    /\ WF_vars(Send)
    /\ WF_vars(Close)

\* ----------------------------------------------------- claims: the library
Returned(op) == callOp = op /\ callRet # NotCalled

\* C14: ToolSet.Parse returns, in order, exactly the calls of the batch that
\* parse successfully on their own, whatever happens to the other calls.
C14_ParseKeepsSuccesses ==
    Returned("ToolSet.Parse") =>
        LET index == NewToolSet(callArg.tools)
            ok    == SelectSeq(callArg.calls, LAMBDA c : ParseOne(index, c).err = <<>>)
        IN  callRet[1].result = [i \in 1..Len(ok) |-> ParseOne(index, ok[i]).call[1]]

\* C14 witness: a batch whose first call fails and whose second call succeeds
\* has returned the second call.
C14_Witness ==
    /\ Returned("ToolSet.Parse")
    /\ Len(callArg.calls) = 2
    /\ callArg.calls[1].Name = "unknown"
    /\ Len(callRet[1].result) = 1
    /\ callRet[1].result[1].ID = callArg.calls[2].ID
    /\ callRet[1].errs # <<>>

\* C15: a call whose name is not registered adds the error "unknown tool:
\* <name>", is not among the results, and makes the joined error non-nil.
C15_UnknownToolReported ==
    Returned("ToolSet.Parse") =>
        \A i \in DOMAIN callArg.calls :
            LET name == callArg.calls[i].Name
            IN  (\A j \in DOMAIN callArg.tools : callArg.tools[j].name # name)
                   => /\ \E e \in DOMAIN callRet[1].errs :
                            callRet[1].errs[e] = ToolError("unknown tool", name)
                      /\ \A r \in DOMAIN callRet[1].result : callRet[1].result[r].Name # name
                      /\ callRet[1].errs # <<>>

\* C15 witness: a batch with a registered and an unregistered call has
\* returned one result and the unknown-tool error.
C15_Witness ==
    /\ Returned("ToolSet.Parse")
    /\ Len(callArg.calls) = 2
    /\ callArg.calls[1].Name = "test" /\ callArg.calls[2].Name = "unknown"
    /\ Len(callRet[1].result) = 1
    /\ callRet[1].errs = <<ToolError("unknown tool", "unknown")>>

\* C16: with a compiled schema (age: integer, 0..120, required), arguments
\* that violate it give a validation error naming the tool and no result;
\* arguments that satisfy it give a typed call with the decoded value and the
\* raw call's id and name.
C16_ParseValidatesFirst ==
    (Returned("ToolSpec.parse") /\ callArg.spec.schema # <<>>) =>
        LET obj   == ObjectOf(callArg.raw.Arguments)
            valid == /\ "age" \in DOMAIN obj
                     /\ obj.age.t = "int"
                     /\ 0 <= obj.age.n /\ obj.age.n <= 120
        IN  IF valid
            THEN /\ callRet[1].err = <<>>
                 /\ callRet[1].call # <<>>
                 /\ callRet[1].call[1].Params.age = obj.age.n
                 /\ callRet[1].call[1].ID = callArg.raw.ID
                 /\ callRet[1].call[1].Name = callArg.raw.Name
            ELSE /\ callRet[1].call = <<>>
                 /\ callRet[1].err = <<ToolError("validate", callArg.spec.name)>>

\* C16 witness: parse of {age: 25} against the compiled schema has returned a
\* typed call holding 25.
C16_Witness ==
    /\ Returned("ToolSpec.parse")
    /\ callArg.spec.schema # <<>>
    /\ callArg.raw.Arguments = <<[age |-> GoInt(25)]>>
    /\ callRet[1].call # <<>>
    /\ callRet[1].call[1].Params.age = 25

\* The options name an existing tool.
ChoiceNamesTool(o) ==
    /\ o.ToolChoice.k = "tool"
    /\ \E i \in DOMAIN o.Tools : o.Tools[i].Name = o.ToolChoice.Name

AllMessagesValid(o) == \A i \in DOMAIN o.Messages : MessageValidate(o.Messages[i]) = NilError

ToolDefinitionOK(t) == t.Name # "" /\ t.Parameters \in {<<>>, <<"object">>}

\* C18: options that Validate accepts have a non-empty Model, an allowed
\* ReasoningEffort and only valid tools.
C18_InvalidOptionsRejected ==
    (Returned("StreamOptions.Validate") /\ callRet[1] = NilError) =>
        /\ callArg.Model # ""
        /\ callArg.ReasoningEffort \in ReasoningEfforts
        /\ \A i \in DOMAIN callArg.Tools : ToolDefinitionOK(callArg.Tools[i])

\* The invariant of a message as the claim states it.
MessageOK(m) ==
    IF m.role \in {"system", "user"} THEN m.Content # ""
    ELSE IF m.role = "assistant"
    THEN /\ m.Content # "" \/ Len(m.ToolCalls) >= 1
         /\ \A i \in DOMAIN m.ToolCalls : m.ToolCalls[i].ID # "" /\ m.ToolCalls[i].Name # ""
    ELSE m.ToolCallID # "" /\ m.Output # ""

\* C19: Validate of a message returns nil exactly when the message satisfies
\* its variant's invariant.
C19_MessageValidity ==
    Returned("Message.Validate") => ((callRet[1] = NilError) <=> MessageOK(callArg))

\* C19 witness: an assistant message without content and with a tool call
\* that lacks its name has been rejected.
C19_Witness ==
    /\ Returned("Message.Validate")
    /\ callArg.role = "assistant"
    /\ callArg.Content = ""
    /\ Len(callArg.ToolCalls) = 2
    /\ callArg.ToolCalls[1].Name # "" /\ callArg.ToolCalls[1].ID # ""
    /\ callArg.ToolCalls[2].Name = ""
    /\ callRet[1] # NilError

\* Two argument values denote the same thing: numbers by their value, whatever
\* their Go type, strings by their text, maps member by member.
RECURSIVE ValueEquivalent(_, _)
ValueEquivalent(v, w) ==
    IF v.t \in {"int", "float64"}
    THEN w.t \in {"int", "float64"} /\ v.big = w.big /\ v.n = w.n
    ELSE IF v.t = "string" THEN w.t = "string" /\ v.s = w.s
    ELSE /\ w.t = "map"
         /\ DOMAIN v.m = DOMAIN w.m
         /\ \A k \in DOMAIN v.m : ValueEquivalent(v.m[k], w.m[k])

ArgumentsEquivalent(a, b) ==
    /\ Len(a) = Len(b)
    /\ a # <<>> => /\ DOMAIN a[1] = DOMAIN b[1]
                   /\ \A k \in DOMAIN a[1] : ValueEquivalent(a[1][k], b[1][k])

\* Same variant, equal fields.
MessageEquivalent(m, r) ==
    /\ m.role = r.role
    /\ m.role \in {"system", "user"} => m.Content = r.Content
    /\ m.role = "assistant" =>
          /\ m.Content = r.Content
          /\ Len(m.ToolCalls) = Len(r.ToolCalls)
          /\ \A i \in DOMAIN m.ToolCalls :
                /\ m.ToolCalls[i].ID = r.ToolCalls[i].ID
                /\ m.ToolCalls[i].Name = r.ToolCalls[i].Name
                /\ ArgumentsEquivalent(m.ToolCalls[i].Arguments, r.ToolCalls[i].Arguments)
    /\ m.role = "tool" =>
          m.ToolCallID = r.ToolCallID /\ m.Output = r.Output /\ m.IsError = r.IsError

\* C20: decoding the encoding of a sequence of messages succeeds and yields,
\* position by position, a message of the same variant with equal fields.
C20_RoundTrip ==
    Returned("Messages.RoundTrip") =>
        /\ callRet[1].err = NilError
        /\ Len(callRet[1].msgs) = Len(callArg)
        /\ \A i \in DOMAIN callArg : MessageEquivalent(callArg[i], callRet[1].msgs[i])

\* --------------------------------------------- claims: stream creation
\* The options fail validation, as the claims on validation state it.
OptionsInvalid(o) ==
    \/ \E i \in DOMAIN o.Messages : ~MessageOK(o.Messages[i])
    \/ o.ToolChoice.k # "nil" /\ o.Tools = <<>>

\* The model reference names no registered adapter.
Unresolvable(ref) == Len(ref) < 2 \/ ref[1] \notin Providers

\* C12: a stream-creation call that fails for a reason detectable before
\* streaming (options validation, model resolution, connection failure,
\* non-success status) returns a non-nil error with a nil channel and starts
\* no adapter goroutine; a call that returns a nil error returns a channel.
C12_CreationFailsSynchronously ==
    Returned("Registry.CreateStream") =>
        /\ (\/ OptionsInvalid(callArg.opts)
            \/ Unresolvable(callArg.opts.Model)
            \/ callArg.attempt # "ok")
              => /\ callRet[1].err # NilError
                 /\ callRet[1].events = "nil"
                 /\ pc = "none"
                 /\ sent = <<>> /\ outbox = <<>> /\ closed = 0
        /\ callRet[1].err = NilError => callRet[1].events = "chan"

\* C12 witness: a call with valid options and a resolvable model whose
\* request was answered with a non-success status has returned.
C12_Witness ==
    /\ Returned("Registry.CreateStream")
    /\ ~OptionsInvalid(callArg.opts) /\ ~Unresolvable(callArg.opts.Model)
    /\ callArg.attempt = "status"
    /\ callRet[1].err # NilError
    /\ callRet[1].events = "nil"

\* C13 as stated: a transport failure before any event has been produced is
\* returned by the stream-creation call and never reported by an event.
C13_EarlyFailureAsStated ==
    Returned("Registry.CreateStream") =>
        /\ (~OptionsInvalid(callArg.opts) /\ ~Unresolvable(callArg.opts.Model)
               /\ callArg.attempt \in {"connect", "status"})
              => callRet[1].err # NilError /\ sent = <<>> /\ outbox = <<>>
        /\ \A i \in DOMAIN sent :
              (sent[i].ev.type = "error" /\ sent[i].by.k = "readerr"
                  /\ sent[i].by.cause = "unexpected EOF") => i > 1

\* C13 amended: a transport failure of the initial request (the connection
\* fails or the status is not a success) is returned by the stream-creation
\* call, and no event is ever produced for the request.
C13_RequestFailureIsSynchronous ==
    (Returned("Registry.CreateStream")
        /\ ~OptionsInvalid(callArg.opts) /\ ~Unresolvable(callArg.opts.Model)
        /\ callArg.attempt \in {"connect", "status"})
       => /\ callRet[1].err # NilError
          /\ sent = <<>> /\ outbox = <<>> /\ events = <<>> /\ received = <<>>

\* C13 witness: a call whose connection failed has returned its error.
C13_Witness ==
    /\ Returned("Registry.CreateStream")
    /\ ~OptionsInvalid(callArg.opts) /\ ~Unresolvable(callArg.opts.Model)
    /\ callArg.attempt = "connect"
    /\ callRet[1].err # NilError
    /\ sent = <<>>

\* C21: decoding a sequence in which some element has an unknown or missing
\* role fails with an "unknown role" error, and the destination then holds
\* none of the elements that preceded the offending one.
C21_UnknownRoleRejectsAll ==
    (Returned("Messages.UnmarshalJSON")
        /\ \E i \in DOMAIN callArg.o : RoleOf(callArg.o[i]) \notin Roles)
       => /\ \E i \in DOMAIN callArg.o :
                /\ RoleOf(callArg.o[i]) \notin Roles
                /\ callRet[1].err = "message[" \o ToString(i - 1) \o "]: unknown role "
                                       \o Quote(RoleOf(callArg.o[i]))
          /\ callRet[1].msgs = <<>>

\* ------------------------------------------------- claims: the registry
\* Some provider has been registered under the name.
Registered(name) == \E i \in DOMAIN regs : regs[i].name = name

\* The provider registered last under the name.
Latest(name) ==
    regs[CHOOSE i \in DOMAIN regs :
            regs[i].name = name /\ \A k \in DOMAIN regs : regs[k].name = name => k <= i]

\* C22: ResolveModel splits at the first "/" only: without a "/" it fails
\* with a bad-request error, with an unregistered name before the first "/" it
\* fails with a not-found error, otherwise it returns that provider and all
\* that follows the first "/" as the model id.
C22_ResolveSplitsOnce ==
    Returned("Registry.ResolveModel") =>
        LET ref == callArg
            r   == callRet[1]
        IN  IF Len(ref) = 1
            THEN /\ r.provider = <<>>
                 /\ r.err = "invalid model reference " \o Quote(ref[1])
                               \o ", expected provider/model: " \o ErrBadRequest
            ELSE IF ~Registered(ref[1])
            THEN /\ r.provider = <<>>
                 /\ r.err = "provider " \o Quote(ref[1]) \o ": " \o ErrNotFound
            ELSE /\ r.err = NilError
                 /\ r.provider # <<>> /\ r.provider[1].name = ref[1]
                 /\ r.model = JoinSegments(Tail(ref))

\* C22 witness: a reference with two "/" has resolved to its provider and to
\* the rest, "/" included.
C22_Witness ==
    /\ Returned("Registry.ResolveModel")
    /\ callArg = <<"openai", "org", "model">>
    /\ callRet[1].err = NilError
    /\ callRet[1].model = "org/model"

\* C23: for valid options with a resolvable model, Registry.CreateStream
\* calls the resolved provider once, with the caller's options except that
\* Model is the bare model id, and returns what that call returns; otherwise
\* it calls no provider.
C23_CreateStreamIsFacade ==
    Returned("Registry.CreateStream") =>
        IF ~OptionsInvalid(callArg.opts) /\ ~Unresolvable(callArg.opts.Model)
        THEN /\ Len(delegated) = 1
             /\ delegated[1].provider = callArg.opts.Model[1]
             /\ delegated[1].opts =
                   [callArg.opts EXCEPT !.Model = JoinSegments(Tail(callArg.opts.Model))]
             /\ LET r == ProviderCreateStream(delegated[1].provider, oauth, delegated[1].opts,
                                              callArg.attempt)
                IN  callRet[1] = [events |-> r.events, err |-> r.err]
        ELSE delegated = <<>>

\* C23 witness: a call for openrouter/anthropic/claude has been handed on
\* with the model id anthropic/claude.
C23_Witness ==
    /\ Returned("Registry.CreateStream")
    /\ callArg.opts.Model = <<"openrouter", "anthropic", "claude">>
    /\ Len(delegated) = 1
    /\ delegated[1].opts.Model = "anthropic/claude"
    /\ callRet[1].err = NilError

\* The model entries the registrations made so far have appended.
RECURSIVE ModelsOf(_)
ModelsOf(ps) ==
    IF ps = <<>> THEN <<>>
    ELSE [i \in DOMAIN Head(ps).models |->
             [ID |-> Head(ps).name \o "/" \o Head(ps).models[i], Name |-> Head(ps).models[i],
              Provider |-> Head(ps).name]] \o ModelsOf(Tail(ps))

\* C24: after any sequence of registrations, Provider and ResolveModel return
\* for a name the instance registered last under it, and the model list holds
\* the "name/modelId" entries of every registration, in order.
C24_RegisterReplaces ==
    callOp \in RegistryOps =>
        /\ \A i \in DOMAIN regs :
              RegistryProvider(registry, regs[i].name) =
                 [p |-> <<Latest(regs[i].name)>>, err |-> NilError]
        /\ registry.models = ModelsOf(regs)
        /\ (Returned("Registry.ResolveModel") /\ callRet[1].err = NilError)
              => callRet[1].provider = <<Latest(callArg[1])>>

\* C24 witness: after two registrations under one name, ResolveModel has
\* returned the second instance and the model list holds both instances'
\* entries.
C24_Witness ==
    /\ Returned("Registry.ResolveModel")
    /\ Len(regs) = 2
    /\ regs[1].name = "openai" /\ regs[2].name = "openai" /\ regs[1].inst # regs[2].inst
    /\ callRet[1].err = NilError
    /\ callRet[1].provider[1].inst = regs[2].inst
    /\ Len(registry.models) = Len(regs[1].models) + Len(regs[2].models)

\* ----------------------------------------------- claims: the credential
\* The credential the provider started with is due for a refresh at time 0
\* and can be refreshed.
DueAtStart ==
    /\ audit.initial # <<>>
    /\ audit.initial[1].Expires <= RefreshMargin
    /\ audit.initial[1].Refresh # ""

\* The goroutine has got past getAccessToken without an error.
HasToken(t) == callers[t].pc \in {"quota", "checkQuota", "done"} /\ callers[t].token # NoToken

\* C25 as stated: when concurrent requests meet a credential that needs
\* refreshing, exactly one refresh call is issued and every request uses the
\* refreshed credential.
C25_ExactlyOneRefresh ==
    (callOp \in AnthropicOps /\ DueAtStart /\ \A t \in DOMAIN callers : callers[t].pc = "done")
       => /\ audit.refreshes = 1
          /\ \A t \in DOMAIN callers : callers[t].token = anthropic.OAuth[1].Access

\* C25 amended: the expiry check and the refresh happen under the lock; a
\* refresh is issued only when the clock is within 5 minutes of the expiry;
\* and when the credential is due at the start, as long as no refresh has
\* failed or returned a credential that is itself due, one refresh call is
\* issued and every request that got a token got the refreshed one.
C25_RefreshGuarded ==
    callOp \in AnthropicOps =>
        /\ \A t \in DOMAIN callers :
              callers[t].pc \in {"refreshing", "store", "unlock"} => anthropic.mu = t
        /\ (audit.initial = <<>> \/ audit.initial[1].Expires > RefreshMargin + MaxClock)
              => audit.refreshes = 0
        /\ (DueAtStart /\ audit.outcomes \subseteq {"fresh"}) =>
              /\ audit.refreshes <= 1
              /\ \A t \in DOMAIN callers :
                    HasToken(t) => /\ audit.refreshes = 1
                                   /\ callers[t].token = Token("oat", 1)
                                   /\ callers[t].token = anthropic.OAuth[1].Access

\* C25 witness: all requests against a due credential are done, one refresh
\* was issued and every request holds the refreshed token.
C25_Witness ==
    /\ callOp \in AnthropicOps
    /\ DueAtStart
    /\ audit.refreshes = 1
    /\ audit.outcomes = {"fresh"}
    /\ \A t \in DOMAIN callers : callers[t].pc = "done" /\ callers[t].token = Token("oat", 1)

\* C29: the access token, the refresh token, the expiry and the quota-check
\* flag are read and written only by a goroutine that holds the provider's
\* lock.
C29_LockedAccessOnly ==
    callOp \in AnthropicOps => audit.unlocked = {}

\* ------------------------------------------ claims: guarded construction
\* The callers of the operation.
CallersOf(op) == {t \in DOMAIN callers : callers[t].op = op}

C27_FailureCached ==
    callOp \in LazyOps =>
        /\ lazy.dbErr # NilError =>
              /\ lazy.loads = 1
              /\ \A t \in CallersOf("Load") : \A i \in DOMAIN callers[t].ret :
                    callers[t].ret[i].err = lazy.dbErr
        /\ lazy.clientErr # NilError =>
              /\ lazy.builds = 1
              /\ lazy.client = <<>>
              /\ \A t \in CallersOf("CreateStream") : \A i \in DOMAIN callers[t].ret :
                    callers[t].ret[i].err = lazy.clientErr

\* C27 witness: after a failed load, one goroutine has called twice and
\* another once, and all three calls returned the error of the one attempt.
C27_Witness ==
    /\ callOp \in LazyOps
    /\ lazy.dbErr = "read api.json"
    /\ lazy.loads = 1
    /\ \E t, u \in CallersOf("Load") :
          /\ t # u
          /\ Len(callers[t].ret) = 2 /\ callers[u].ret # <<>>
          /\ callers[t].ret[2].err = "read api.json"
          /\ callers[u].ret[1].err = "read api.json"

\* ---------------------------------------------------- claims: the channel
\* C28: the channel never holds more than 64 events; while it is full and the
\* adapter has an event to send, the adapter does nothing until the consumer
\* receives; and what the consumer has received, followed by what the channel
\* holds, is what the adapter has sent, in order.
C28_BoundedBlockingChannel ==
    [][ /\ Len(events') <= ChanCap
        /\ received' \o events' = [i \in DOMAIN sent' |-> sent'[i].ev]
        /\ (Len(events) = ChanCap /\ outbox # <<>>)
              => /\ outbox' = outbox /\ sent' = sent
                 /\ pc' = pc /\ nread' = nread
                 /\ Len(events') = ChanCap - 1 ]_vars

\* C28 witness: the channel is full and the adapter stands before a send.
C28_Witness ==
    /\ Len(events) = ChanCap
    /\ outbox # <<>>
    /\ received = <<>>

\* ------------------------------------------------ claims: no call dropped
\* C30: when the Done event is pushed, every tool call whose start frame or
\* first fragment arrived by then, and was not replaced by a later start at its
\* index, has a ToolCall event pushed before the Done event.
C30_NoToolCallDropped ==
    \A d \in DOMAIN Emitted :
        Emitted[d].ev.type = "done"
           => \A k \in DOMAIN wcalls :
                 (/\ wcalls[k].clean
                  /\ wcalls[k].stop # -1
                  /\ wcalls[k].start <= Emitted[d].at)
                    => \E i \in EventsFor(k) : i < d

\* --------------------------------------------- claims: cancellation
\* C31: once the request context is cancelled the adapter goroutine eventually
\* returns and closes the channel, whether or not the consumer still receives.
C31_CancelReleasesAdapter ==
    (ctxErr # "") ~> (closed = 1)

\* ------------------------------------------------- claims: error frames
\* C32: a frame that cannot be decoded at the top level ends the stream: the
\* iteration that read it pushes an Error event as the last event and leaves
\* the loop, so no later frame is processed.
C32_UndecodableFrameFatal ==
    (frame.k = "garbage" /\ Translated(nread))
       => /\ pc \in {"ret", "exit"}
          /\ Emitted # <<>>
          /\ Emitted[Len(Emitted)].ev.type = "error"
          /\ Emitted[Len(Emitted)].at = nread

\* The frames by which a backend reports an error in mid-stream: anthropic's
\* event of type "error", an OpenAI-compatible chunk with an error object.
IsErrorFrame(f) ==
    \/ f.k = "error"
    \/ provider \in {"openai", "openrouter"} /\ f.k = "chunk" /\ f.error # ""

\* C33: the iteration that reads a backend error frame pushes, as the last
\* event of the stream, an Error event carrying the backend's message, and
\* leaves the loop; the stream has no Done event.
C33_ErrorFrameTerminal ==
    (IsErrorFrame(frame) /\ Translated(nread))
       => /\ pc \in {"ret", "exit"}
          /\ Emitted # <<>>
          /\ Emitted[Len(Emitted)].ev.type = "error"
          /\ Emitted[Len(Emitted)].at = nread
          /\ Emitted[Len(Emitted)].ev.err.cause = (IF frame.k = "error" THEN frame.message ELSE frame.error)
          /\ \A i \in DOMAIN Emitted : Emitted[i].ev.type # "done"

\* ------------------------------------------- claims: a failed refresh
\* The request of goroutine t has failed in the token refresh.
RefreshFailed(t) ==
    callers[t].err \in {"token refresh: request failed", "token refresh: no refresh token available"}

\* What a step of the credential machine does around a failed refresh.
FailedRefreshStep ==
    \A t \in DOMAIN callers :
        /\ (callers[t].pc = "refreshing" /\ callers'[t].err # "")
              => /\ anthropic'.OAuth = anthropic.OAuth
                 /\ callers'[t].pc = "unlock"
                 /\ RefreshFailed(t)'
        /\ (callers[t].pc = "unlock" /\ RefreshFailed(t))
              => /\ anthropic'.OAuth = anthropic.OAuth
                 /\ callers'[t].pc \in {"unlock", "done"}
                 /\ callers'[t].token = NoToken
        /\ (callers[t].pc = "done" /\ RefreshFailed(t))
              => callers'[t] = callers[t]
        /\ (/\ callers[t].pc = "lock" /\ callers'[t].pc # "lock"
            /\ audit.outcomes = {"failed"})
              => /\ anthropic.OAuth = audit.initial
                 /\ callers'[t].pc = "refreshing"
                 /\ audit'.refreshes = audit.refreshes + 1

\* C34: the step in which a refresh fails, and every step until the failing
\* request has returned, leaves the stored credential as it was; the failing
\* request returns its error without reaching the quota check or the API
\* request; and while no refresh has succeeded, every request that enters
\* getAccessToken after a failed refresh request issues a refresh request of
\* its own.
C34_FailedRefreshRetried ==
    [][ (callOp \in AnthropicOps => FailedRefreshStep) ]_vars

\* C34 witness: one request has returned the error of a failed refresh, the
\* stored credential is the one the provider started with, and the next
\* request has issued a refresh request of its own.
C34_Witness ==
    /\ callOp \in AnthropicOps
    /\ \E t, u \in DOMAIN callers :
          /\ t # u
          /\ callers[t].pc = "done" /\ callers[t].err = "token refresh: request failed"
          /\ callers[u].pc = "refreshing"
    /\ anthropic.OAuth = audit.initial
    /\ audit.refreshes = 2

\* ------------------------------------------------ claims: the quota check
\* The quota checks that have completed without an error.
QuotaChecksPassed ==
    audit.quotaChecks
       - Cardinality({t \in DOMAIN callers : callers[t].err = "quota check: request failed"})

\* C35: on a provider constructed with an OAuth credential at most one quota
\* check is issued, and a request goes on to the API request only after a
\* quota check has completed without an error.
C35_QuotaCheckedOnceFirst ==
    (callOp \in AnthropicOps /\ audit.initial # <<>>)
       => /\ audit.quotaChecks <= 1
          /\ \A t \in DOMAIN callers :
                (callers[t].pc = "done" /\ callers[t].err = "") => QuotaChecksPassed >= 1

\* ------------------------------------------- claims: the parsed batch
\* The r-th smallest element of a set of positions, and the elements of a
\* sequence at those positions, in order.
Ranked(S, r) == CHOOSE i \in S : Cardinality({j \in S : j < i}) = r - 1
SubSeqAt(seq, S) == [r \in 1..Cardinality(S) |-> seq[Ranked(S, r)]]

\* C36: the batch splits into the calls that succeeded and the calls that
\* failed: the results are the former, in the order of the batch, the recorded
\* errors are one per call of the latter, and the returned error is nil
\* exactly when no call failed.
C36_ParsePartitions ==
    Returned("ToolSet.Parse") =>
        \E S \in SUBSET DOMAIN callArg.calls :
            LET ok  == SubSeqAt(callArg.calls, S)
                bad == SubSeqAt(callArg.calls, DOMAIN callArg.calls \ S)
            IN  /\ Len(callRet[1].result) = Len(ok)
                /\ \A r \in DOMAIN ok :
                      /\ callRet[1].result[r].ID = ok[r].ID
                      /\ callRet[1].result[r].Name = ok[r].Name
                /\ Len(callRet[1].errs) = Len(bad)
                /\ \A e \in DOMAIN bad : callRet[1].errs[e].name = bad[e].Name
                /\ (callRet[1].errs = <<>>) <=> (S = DOMAIN callArg.calls)

\* C36 witness: of two calls for the same tool the first has been parsed and
\* the second has failed validation.
C36_Witness ==
    /\ Returned("ToolSet.Parse")
    /\ Len(callArg.calls) = 2
    /\ callArg.calls[1].ID = "call_1" /\ callArg.calls[2].ID = "call_2"
    /\ Len(callRet[1].result) = 1
    /\ callRet[1].result[1].ID = "call_1"
    /\ callRet[1].errs = <<ToolError("validate", "test")>>

\* ---------------------------------------------- claims: duplicate tools
\* C37: Definitions() lists the definition of every tool given to NewToolSet,
\* in the order given, duplicates included; and a call is parsed by the last
\* tool registered under its name.
C37_LaterToolWins ==
    Returned("NewToolSet") =>
        LET tools == callArg.tools
            call  == callArg.calls[1]
            named == {i \in DOMAIN tools : tools[i].name = call.Name}
        IN  /\ Len(callRet[1].definitions) = Len(tools)
            /\ \A i \in DOMAIN tools :
                  /\ callRet[1].definitions[i].Name = tools[i].name
                  /\ callRet[1].definitions[i].Description = tools[i].definition.Description
            /\ named # {} =>
                  LET later == tools[CHOOSE i \in named : \A j \in named : j <= i]
                      one   == ToolSpecParse(later, call)
                  IN  /\ callRet[1].parsed.result = one.call
                      /\ callRet[1].parsed.errs = one.err

\* C37 witness: of two tools named "test" the first validates and the second
\* does not; a call that the first would reject has been parsed, and both
\* definitions are listed.
C37_Witness ==
    /\ Returned("NewToolSet")
    /\ callArg.tools[1].name = "test" /\ callArg.tools[2].name = "test"
    /\ callArg.tools[1].schema # <<>> /\ callArg.tools[2].schema = <<>>
    /\ callArg.calls[1].Arguments = <<[age |-> GoInt(150)]>>
    /\ Len(callRet[1].parsed.result) = 1
    /\ callRet[1].parsed.errs = <<>>
    /\ callRet[1].definitions[1].Description = "first"
    /\ callRet[1].definitions[2].Description = "second"

\* ------------------------------------------- claims: the ToolCall event
\* C38: every ToolCall event an adapter pushes has a non-empty id and a
\* non-empty name.
C38_ToolCallNamed ==
    \A i \in ToolCallsOf : Emitted[i].ev.id # "" /\ Emitted[i].ev.name # ""

\* ------------------------------------------ claims: the flat model list
\* C39: no two entries of the registry's model list have the same id, and
\* every entry's id resolves to the provider now registered under its name,
\* whose Models() holds the entry's bare id.
C39_ModelListConsistent ==
    callOp \in RegistryOps =>
        /\ \A i, j \in DOMAIN registry.models :
              i # j => registry.models[i].ID # registry.models[j].ID
        /\ \A i \in DOMAIN registry.models :
              LET m == registry.models[i]
                  r == ResolveModel(registry, <<m.Provider, m.Name>>)
              IN  /\ r.err = NilError
                  /\ r.model = m.Name
                  /\ \E k \in DOMAIN r.provider[1].models : r.provider[1].models[k] = m.Name

====
